---- MODULE Spec2Model ----
(***************************************************************************)
(* Model of the email enrichment core of app.py: clean_domain, parse_name, *)
(* generate_email_formats, verify_email_api, verify_single_email and the   *)
(* batch loop of run_smart_verification / render_csv_upload_tab, the       *)
(* column mapping of render_optimized_csv_upload_tab and the fallback      *)
(* chain of find_linkedin_enhanced.                                        *)
(*                                                                         *)
(* A Python str is a sequence of one-character strings.  An Optional       *)
(* value is None == << >> or Some(x) == << x >>.  A Python dict is the     *)
(* set of its <<key, value>> pairs.                                        *)
(***************************************************************************)
EXTENDS Integers, Sequences, FiniteSets, TLC

VARIABLES
    \* verify_single_email: arguments, locals and return value
    pc, firstname, lastname, company_url,
    domain, full_name, first, middle, last,
    email_formats, formats_tested, i, net, api_result, result,
    \* history of one lookup
    calls, failed_at, all_raised, slept, first_ok,
    \* history of the process: the calls of generate_email_formats made so
    \* far, each with its arguments and the list it returned
    generated,
    \* the batch loop
    bpc, df, cleaned_df, row_pos, total_rows, total_api_calls, verified_emails,
    rows_started, oracle_calls,
    \* application of a pure function to drawn arguments
    fn_pc, fn_args, fn_out,
    \* the column mapping of the optimized upload tab
    uploaded_file, session_state, ui_event,
    \* find_linkedin_enhanced: position, argument, methods invoked, return value
    li_pc, li_email, li_tried, li_result

lookup_vars == <<pc, firstname, lastname, company_url, domain, full_name, first,
                 middle, last, email_formats, formats_tested, i, net,
                 api_result, result, calls, failed_at, all_raised, slept, first_ok>>
batch_vars == <<bpc, df, cleaned_df, row_pos, total_rows, total_api_calls,
                verified_emails, rows_started, oracle_calls>>
fn_vars == <<fn_pc, fn_args, fn_out>>
ui_vars == <<uploaded_file, session_state, ui_event>>
li_vars == <<li_pc, li_email, li_tried, li_result>>
gen_vars == <<generated>>
vars == <<lookup_vars, batch_vars, fn_vars, ui_vars, li_vars, gen_vars>>

----------------------------------------------------------------------------
(* Optional values *)

None == << >>
Some(x) == << x >>

\* Python truthiness of an Optional[str]: None and '' are falsy
Truthy(o) == o # None /\ o[1] # << >>

----------------------------------------------------------------------------
(* Python str operations on character sequences *)

UpperChars == <<"A","B","C","D","E","F","G","H","I","J","K","L","M",
                "N","O","P","Q","R","S","T","U","V","W","X","Y","Z">>
LowerChars == <<"a","b","c","d","e","f","g","h","i","j","k","l","m",
                "n","o","p","q","r","s","t","u","v","w","x","y","z">>

\* the cased characters of U+0080..U+00FF whose lowercase differs from them
UpperCharsLatin1 == <<"À","Á","Â","Ã","Ä","Å","Æ","Ç","È","É","Ê","Ë","Ì","Í","Î","Ï",
                      "Ð","Ñ","Ò","Ó","Ô","Õ","Ö","Ø","Ù","Ú","Û","Ü","Ý","Þ">>
LowerCharsLatin1 == <<"à","á","â","ã","ä","å","æ","ç","è","é","ê","ë","ì","í","î","ï",
                      "ð","ñ","ò","ó","ô","õ","ö","ø","ù","ú","û","ü","ý","þ">>

\* str.lower() on one character of U+0000..U+00FF (a character above U+00FF
\* cannot be written in a string of this module)
ToLower(c) ==
    IF \E k \in DOMAIN UpperChars : UpperChars[k] = c
    THEN LowerChars[CHOOSE k \in DOMAIN UpperChars : UpperChars[k] = c]
    ELSE IF \E k \in DOMAIN UpperCharsLatin1 : UpperCharsLatin1[k] = c
    THEN LowerCharsLatin1[CHOOSE k \in DOMAIN UpperCharsLatin1 : UpperCharsLatin1[k] = c]
    ELSE c

\* str.lower()
Lower(s) == [k \in 1..Len(s) |-> ToLower(s[k])]

\* the characters of U+0000..U+00FF for which str.isspace() holds: tab, line
\* feed, vertical tab, form feed, carriage return, U+001C..U+001F, space,
\* U+0085 and U+00A0
WhitespaceChars ==
    <<"\t", "\n", "", "\f", "\r", "", "", "", "", " ", "", " ">>

\* the characters str.strip() and str.split() treat as whitespace
IsSpace(c) == \E k \in DOMAIN WhitespaceChars : WhitespaceChars[k] = c

RECURSIVE LStrip(_)
LStrip(s) == IF s # << >> /\ IsSpace(Head(s)) THEN LStrip(Tail(s)) ELSE s

RECURSIVE RStrip(_)
RStrip(s) ==
    IF s # << >> /\ IsSpace(s[Len(s)]) THEN RStrip(SubSeq(s, 1, Len(s) - 1)) ELSE s

\* str.strip()
Strip(s) == RStrip(LStrip(s))

\* length of the leading run of non-whitespace characters
RECURSIVE TokenLen(_)
TokenLen(s) == IF s = << >> \/ IsSpace(Head(s)) THEN 0 ELSE 1 + TokenLen(Tail(s))

\* str.split() with no separator: the whitespace-separated tokens
RECURSIVE Split(_)
Split(s) ==
    LET t == LStrip(s)
        n == TokenLen(t)
    IN  IF t = << >> THEN << >>
        ELSE <<SubSeq(t, 1, n)>> \o Split(SubSeq(t, n + 1, Len(t)))

\* sep.join(parts)
RECURSIVE Join(_, _)
Join(sep, parts) ==
    IF parts = << >> THEN << >>
    ELSE IF Len(parts) = 1 THEN parts[1]
    ELSE parts[1] \o sep \o Join(sep, Tail(parts))

\* re.sub(r'^<prefix>', '', s, flags=re.IGNORECASE) for a literal lowercase prefix
StripPrefixCI(s, prefix) ==
    IF Len(s) >= Len(prefix) /\ Lower(SubSeq(s, 1, Len(prefix))) = prefix
    THEN SubSeq(s, Len(prefix) + 1, Len(s))
    ELSE s

\* s.split('/')[0]
RECURSIVE BeforeSlash(_)
BeforeSlash(s) ==
    IF s = << >> \/ Head(s) = "/" THEN << >> ELSE <<Head(s)>> \o BeforeSlash(Tail(s))

IsLowerLetter(c) == \E k \in DOMAIN LowerChars : LowerChars[k] = c

\* re.sub(r'[^a-z]', '', s)
LettersOnly(s) == SelectSeq(s, IsLowerLetter)

\* a list built without dict.fromkeys: repeats stay
Dedup_keeps_repeats(xs) == xs

\* list(dict.fromkeys(xs)): drop repeats, keep the order of first occurrence
RECURSIVE Dedup(_)
Dedup(xs) ==
    IF xs = << >> THEN << >>
    ELSE LET init == Dedup(SubSeq(xs, 1, Len(xs) - 1))
             x == xs[Len(xs)]
         IN  IF \E k \in DOMAIN init : init[k] = x THEN init ELSE Append(init, x)

----------------------------------------------------------------------------
(* clean_domain *)

\* a clean_domain that does not cut the path off
CleanDomain_keeps_path(domain_raw) ==
    IF Strip(domain_raw) = << >> THEN << >>
    ELSE LET s0 == Strip(domain_raw)
             https == <<"h","t","t","p","s",":","/","/">>
             http == <<"h","t","t","p",":","/","/">>
             d1 == IF StripPrefixCI(s0, https) # s0 THEN StripPrefixCI(s0, https)
                   ELSE StripPrefixCI(s0, http)
             d2 == StripPrefixCI(d1, <<"w","w","w",".">>)
         IN  Lower(Strip(d2))

CleanDomain(domain_raw) ==
    IF Strip(domain_raw) = << >> THEN << >>
    ELSE LET s0 == Strip(domain_raw)
             https == <<"h","t","t","p","s",":","/","/">>
             http == <<"h","t","t","p",":","/","/">>
             \* one substitution of ^https?:// : at most one scheme is removed
             d1 == IF StripPrefixCI(s0, https) # s0 THEN StripPrefixCI(s0, https)
                   ELSE StripPrefixCI(s0, http)
             d2 == StripPrefixCI(d1, <<"w","w","w",".">>)
             d3 == BeforeSlash(d2)
         IN  Lower(Strip(d3))

----------------------------------------------------------------------------
(* parse_name *)

\* a parse_name that leaves last empty for a single token
ParseName_no_duplicate(name) ==
    IF Strip(name) = << >> THEN [first |-> None, middle |-> None, last |-> None]
    ELSE
      LET parts == Split(Strip(name))
          n == Len(parts)
          first0 == IF n >= 1 THEN Lower(parts[1]) ELSE << >>
          last0 == IF n >= 2 THEN Lower(parts[n]) ELSE << >>
          middle0 == IF n >= 3
                     THEN Some(Lower(Join(<<" ">>, SubSeq(parts, 2, n - 1))))
                     ELSE None
          first1 == LettersOnly(first0)
          last1 == LettersOnly(last0)
          middle1 == IF Truthy(middle0) THEN Some(LettersOnly(middle0[1])) ELSE middle0
          last2 == last1
      IN  IF first1 = << >> /\ last2 = << >>
          THEN [first |-> None, middle |-> None, last |-> None]
          ELSE [first |-> Some(first1), middle |-> middle1, last |-> Some(last2)]

\* a parse_name that does not filter the middle name
ParseName_raw_middle(name) ==
    IF Strip(name) = << >> THEN [first |-> None, middle |-> None, last |-> None]
    ELSE
      LET parts == Split(Strip(name))
          n == Len(parts)
          first0 == IF n >= 1 THEN Lower(parts[1]) ELSE << >>
          last0 == IF n >= 2 THEN Lower(parts[n]) ELSE << >>
          middle0 == IF n >= 3
                     THEN Some(Lower(Join(<<" ">>, SubSeq(parts, 2, n - 1))))
                     ELSE None
          first1 == LettersOnly(first0)
          last1 == LettersOnly(last0)
          middle1 == middle0
          last2 == IF n = 1 /\ first1 # << >> THEN first1 ELSE last1
      IN  IF first1 = << >> /\ last2 = << >>
          THEN [first |-> None, middle |-> None, last |-> None]
          ELSE [first |-> Some(first1), middle |-> middle1, last |-> Some(last2)]

\* a parse_name that gives up when first or last is empty
ParseName_fails_on_either(name) ==
    IF Strip(name) = << >> THEN [first |-> None, middle |-> None, last |-> None]
    ELSE
      LET parts == Split(Strip(name))
          n == Len(parts)
          first0 == IF n >= 1 THEN Lower(parts[1]) ELSE << >>
          last0 == IF n >= 2 THEN Lower(parts[n]) ELSE << >>
          middle0 == IF n >= 3
                     THEN Some(Lower(Join(<<" ">>, SubSeq(parts, 2, n - 1))))
                     ELSE None
          first1 == LettersOnly(first0)
          last1 == LettersOnly(last0)
          middle1 == IF Truthy(middle0) THEN Some(LettersOnly(middle0[1])) ELSE middle0
          last2 == IF n = 1 /\ first1 # << >> THEN first1 ELSE last1
      IN  IF first1 = << >> \/ last2 = << >>
          THEN [first |-> None, middle |-> None, last |-> None]
          ELSE [first |-> Some(first1), middle |-> middle1, last |-> Some(last2)]

ParseName(name) ==
    IF Strip(name) = << >> THEN [first |-> None, middle |-> None, last |-> None]
    ELSE
      LET parts == Split(Strip(name))
          n == Len(parts)
          first0 == IF n >= 1 THEN Lower(parts[1]) ELSE << >>
          last0 == IF n >= 2 THEN Lower(parts[n]) ELSE << >>
          middle0 == IF n >= 3
                     THEN Some(Lower(Join(<<" ">>, SubSeq(parts, 2, n - 1))))
                     ELSE None
          first1 == LettersOnly(first0)
          last1 == LettersOnly(last0)
          middle1 == IF Truthy(middle0) THEN Some(LettersOnly(middle0[1])) ELSE middle0
          last2 == IF n = 1 /\ first1 # << >> THEN first1 ELSE last1
      IN  IF first1 = << >> /\ last2 = << >>
          THEN [first |-> None, middle |-> None, last |-> None]
          ELSE [first |-> Some(first1), middle |-> middle1, last |-> Some(last2)]

----------------------------------------------------------------------------
(* generate_email_formats *)

\* first character of a str, '' when the str is empty
Initial(s) == IF s = << >> THEN << >> ELSE <<s[1]>>

\* one conditional append: the local part when every referenced piece is non-empty
Pattern(cond, local) == IF cond THEN <<local>> ELSE << >>

\* the chain of appends with the three middle-name patterns moved to the end
PotentialLocals_middle_last(first_name, middle_name, last_name) ==
    LET f == Initial(first_name)
        m == IF Truthy(middle_name) THEN Initial(middle_name[1]) ELSE << >>
        l == Initial(last_name)
        F == first_name # << >>
        L == last_name # << >>
        hf == f # << >>
        hm == m # << >>
        hl == l # << >>
        dot == <<".">>
    IN     Pattern(hf /\ L, f \o last_name)
        \o Pattern(F, first_name)
        \o Pattern(F /\ L, first_name \o dot \o last_name)
        \o Pattern(L, last_name)
        \o Pattern(hf /\ hl, f \o l)
        \o Pattern(F /\ L, first_name \o last_name)
        \o Pattern(F /\ hl, first_name \o l)
        \o Pattern(L /\ hf, last_name \o f)
        \o Pattern(L /\ hf, last_name \o dot \o f)
        \o Pattern(L /\ F, last_name \o first_name)
        \o Pattern(F /\ L, first_name \o <<"_">> \o last_name)
        \o Pattern(hf /\ hm /\ hl, f \o m \o l)
        \o Pattern(F /\ hm /\ L, first_name \o dot \o m \o dot \o last_name)
        \o Pattern(hf /\ hm /\ L, f \o m \o last_name)

\* potential_locals after the chain of conditional appends, in source order.
\* first_name and last_name are str, middle_name is Optional[str].
PotentialLocals(first_name, middle_name, last_name) ==
    LET f == Initial(first_name)
        m == IF Truthy(middle_name) THEN Initial(middle_name[1]) ELSE << >>
        l == Initial(last_name)
        F == first_name # << >>
        L == last_name # << >>
        hf == f # << >>
        hm == m # << >>
        hl == l # << >>
        dot == <<".">>
    IN     Pattern(hf /\ L, f \o last_name)
        \o Pattern(F, first_name)
        \o Pattern(F /\ L, first_name \o dot \o last_name)
        \o Pattern(L, last_name)
        \o Pattern(hf /\ hl, f \o l)
        \o Pattern(F /\ L, first_name \o last_name)
        \o Pattern(F /\ hl, first_name \o l)
        \o Pattern(L /\ hf, last_name \o f)
        \o Pattern(L /\ hf, last_name \o dot \o f)
        \o Pattern(hf /\ hm /\ hl, f \o m \o l)
        \o Pattern(L /\ F, last_name \o first_name)
        \o Pattern(F /\ hm /\ L, first_name \o dot \o m \o dot \o last_name)
        \o Pattern(hf /\ hm /\ L, f \o m \o last_name)
        \o Pattern(F /\ L, first_name \o <<"_">> \o last_name)

\* [f"{local_part}@{domain}" for local_part in potential_locals if local_part]
WithDomain(locals, dom) ==
    LET kept == SelectSeq(locals, LAMBDA x : x # << >>)
    IN  [k \in 1..Len(kept) |-> kept[k] \o <<"@">> \o dom]

\* a generator that keeps the addresses the oracle accepted and leaves them
\* out of the lists it returns later
GenerateEmailFormats_skips_verified(first_name, middle_name, last_name, dom) ==
    LET NotVerified(email) ==
            \A k \in DOMAIN verified_emails : verified_emails[k].email # email
    IN  SelectSeq(Dedup(WithDomain(PotentialLocals(first_name, middle_name,
                                                   last_name), dom)),
                  NotVerified)

\* potential_locals = [] is a new list at every call; the body reads its four
\* arguments and nothing else
GenerateEmailFormats(first_name, middle_name, last_name, dom) ==
    Dedup(WithDomain(PotentialLocals(first_name, middle_name, last_name), dom))

\* the local part of a generated address f"{local_part}@{domain}": a local
\* part holds no '@', so it is the text before the first '@'
RECURSIVE LocalPart(_)
LocalPart(email) ==
    IF email = << >> \/ Head(email) = "@" THEN << >>
    ELSE <<Head(email)>> \o LocalPart(Tail(email))

----------------------------------------------------------------------------
(* Python dicts as sets of <<key, value>> pairs *)

Has(d, key) == \E p \in d : p[1] = key

\* d.get(key, default)
Get(d, key, default) ==
    IF Has(d, key) THEN (CHOOSE p \in d : p[1] = key)[2] ELSE default

----------------------------------------------------------------------------
(* verify_email_api: the HTTP GET against the verification provider *)

\* what requests.get / raise_for_status / response.json() can do on one call:
\* raise a RequestException (network error, timeout, HTTP error status), raise a
\* JSONDecodeError, raise any other exception, or deliver a JSON document
\* (JsonBodies are the objects among them)
JsonBodies ==
    { {},
      {<<"email", "x">>},
      {<<"status", "valid">>},
      {<<"status", "catch_all">>},
      {<<"status", "invalid">>},
      {<<"status", "disabled">>},
      {<<"status", "unknown">>},
      {<<"status", "valid">>, <<"error", "quota">>} }

\* JSON documents that are not an object.  A Python value that is not a dict is
\* written as one pair <<type name, content>>: the characters of a str, the
\* elements of a list (strs here), the number of an int (a float behaves like
\* it), the truth value of a bool
JsonOthers ==
    { {<<"<NoneType>", "null">>},
      {<<"<bool>", FALSE>>},
      {<<"<int>", 0>>},
      {<<"<int>", 7>>},
      {<<"<str>", << >>>>},
      {<<"<str>", <<"a","n"," ","e","r","r","o","r">>>>},
      {<<"<list>", << >>>>},
      {<<"<list>", << <<"x">> >>>>},
      {<<"<list>", << <<"x">>, <<"e","r","r","o","r">> >>>>} }

\* str(e) of the RequestException raised by requests.get or raise_for_status
ExceptionTexts == {"connection refused", "500 Server Error"}

NetOutcomes ==
    { [kind |-> k, body |-> {}] : k \in {"JSONDecodeError", "Exception"} }
    \cup { [kind |-> "RequestException", body |-> {<<"message", t>>}] : t \in ExceptionTexts }
    \cup { [kind |-> "json", body |-> b] : b \in JsonBodies \cup JsonOthers }

IsException(o) == o.kind # "json"

PyTypeNames == {"<NoneType>", "<bool>", "<int>", "<str>", "<list>"}

\* type(v).__name__ of a returned value
PyType(v) ==
    IF \E p \in v : p[1] \in PyTypeNames
    THEN (CHOOSE p \in v : p[1] \in PyTypeNames)[1]
    ELSE "<dict>"

\* the content of a value that is not a dict
PyContent(v) == (CHOOSE p \in v : p[1] \in PyTypeNames)[2]

\* bool(v): None, False, 0, '', [] and {} are falsy
PyTruthy(v) ==
    IF PyType(v) = "<dict>" THEN v # {}
    ELSE IF PyType(v) = "<NoneType>" THEN FALSE
    ELSE IF PyType(v) = "<bool>" THEN PyContent(v)
    ELSE IF PyType(v) = "<int>" THEN PyContent(v) # 0
    ELSE PyContent(v) # << >>

\* sub in text, for two strs
Contains(text, sub) ==
    \E k \in 0..(Len(text) - Len(sub)) : SubSeq(text, k + 1, k + Len(sub)) = sub

\* 'error' in v: a key of a dict, an element of a list, a substring of a str
ErrorIn(v) ==
    IF PyType(v) = "<dict>" THEN Has(v, "error")
    ELSE IF PyType(v) = "<list>"
    THEN \E k \in DOMAIN PyContent(v) : PyContent(v)[k] = <<"e","r","r","o","r">>
    ELSE PyType(v) = "<str>" /\ Contains(PyContent(v), <<"e","r","r","o","r">>)

\* the value verify_email_api returns, or the exception it lets through
VerifyEmailApi(o) ==
    IF o.kind = "RequestException"
    THEN [raised |-> FALSE,
          value |-> {<<"error", "API Request Failed: " \o Get(o.body, "message", "")>>}]
    ELSE IF o.kind = "JSONDecodeError"
    THEN [raised |-> FALSE, value |-> {<<"error", "Failed to decode API response">>}]
    ELSE IF o.kind = "Exception"
    THEN [raised |-> TRUE, value |-> {}]
    ELSE [raised |-> FALSE, value |-> o.body]

----------------------------------------------------------------------------
(* verify_single_email *)

\* a blacklist that forgets "unknown"
forbidden_statuses_no_unknown == {"invalid", "disabled"}

forbidden_statuses == {"invalid", "disabled", "unknown"}

\* a status lookup whose default is an accepted status
StatusOf_default_valid(r) == Get(r, "status", "valid")

\* status = result.get("status", "unknown")
StatusOf(r) == Get(r, "status", "unknown")

\* the statements of the try block after the call raise: 'error' not in result
\* is a TypeError for an int or a bool, result.get an AttributeError for a
\* list or a str
TryBlockRaises(r) ==
    /\ PyTruthy(r)
    /\ \/ PyType(r) \in {"<int>", "<bool>"}
       \/ ~ErrorIn(r) /\ PyType(r) # "<dict>"

\* if result and 'error' not in result: ... if status not in forbidden_statuses
Acceptable(r) ==
    /\ PyTruthy(r)
    /\ ~TryBlockRaises(r)
    /\ ~ErrorIn(r)
    /\ StatusOf(r) \notin forbidden_statuses

\* a loop body without the except clause: an exception leaves the function
AfterCall_no_except(r, idx, n) ==
    IF r.raised \/ TryBlockRaises(r.value) THEN "raise"
    ELSE IF Acceptable(r.value) THEN "return"
    ELSE IF idx < n - 1 THEN "sleep"
    ELSE "next"

\* a loop body that does not return on an acceptable status
AfterCall_no_early_stop(r, idx, n) ==
    IF r.raised \/ TryBlockRaises(r.value) THEN "next"
    ELSE IF idx < n - 1 THEN "sleep"
    ELSE "next"

\* a loop body that sleeps after every rejected candidate, the last one too
AfterCall_sleeps_after_last(r, idx, n) ==
    IF r.raised \/ TryBlockRaises(r.value) THEN "next"
    ELSE IF Acceptable(r.value) THEN "return"
    ELSE "sleep"

\* where the loop body goes after the call for candidate idx (0-based) of n:
\* "return" the found record, "sleep" before the next candidate, go on to the
\* "next" candidate, or let the exception "raise" out of the function
AfterCall(r, idx, n) ==
    IF r.raised \/ TryBlockRaises(r.value)
    THEN "next"                             \* except Exception: ... continue
    ELSE IF Acceptable(r.value) THEN "return"
    ELSE IF idx < n - 1 THEN "sleep"
    ELSE "next"

\* a found dict whose attempt number leaves out a candidate whose call failed
FoundRecord_skips_failed(email, status, response) ==
    [firstname |-> firstname, lastname |-> lastname, company |-> domain,
     email |-> Some(email), status |-> status, full_name |-> full_name,
     formats_tested |-> formats_tested,
     total_formats_available |-> Len(email_formats),
     found_on_attempt |->
         Some(Len(formats_tested) - (IF failed_at > 0 THEN 1 ELSE 0)),
     api_result |-> response]

\* a found dict that reports the company URL as it was passed in
FoundRecord_raw_company(email, status, response) ==
    [firstname |-> firstname, lastname |-> lastname, company |-> company_url,
     email |-> Some(email), status |-> status, full_name |-> full_name,
     formats_tested |-> formats_tested,
     total_formats_available |-> Len(email_formats),
     found_on_attempt |-> Some(Len(formats_tested)),
     api_result |-> response]

\* a found dict whose total counts the candidates tested so far
FoundRecord_total_tested(email, status, response) ==
    [firstname |-> firstname, lastname |-> lastname, company |-> domain,
     email |-> Some(email), status |-> status, full_name |-> full_name,
     formats_tested |-> formats_tested,
     total_formats_available |-> Len(formats_tested),
     found_on_attempt |-> Some(Len(formats_tested)),
     api_result |-> response]

\* the dict returned when a candidate is accepted
FoundRecord(email, status, response) ==
    [firstname |-> firstname, lastname |-> lastname, company |-> domain,
     email |-> Some(email), status |-> status, full_name |-> full_name,
     formats_tested |-> formats_tested,
     total_formats_available |-> Len(email_formats),
     found_on_attempt |-> Some(Len(formats_tested)),
     api_result |-> response]

\* a not_found dict that counts only the candidates before the last one
NotFoundRecord_short_total ==
    [firstname |-> firstname, lastname |-> lastname, company |-> domain,
     email |-> None, status |-> "not_found", full_name |-> full_name,
     formats_tested |-> formats_tested,
     total_formats_available |-> Len(email_formats) - 1,
     found_on_attempt |-> None,
     error |-> Some("No valid email found in any format")]

\* the dict returned after the loop
NotFoundRecord ==
    [firstname |-> firstname, lastname |-> lastname, company |-> domain,
     email |-> None, status |-> "not_found", full_name |-> full_name,
     formats_tested |-> formats_tested,
     total_formats_available |-> Len(email_formats),
     found_on_attempt |-> None,
     error |-> Some("No valid email found in any format")]

\* a call that goes on with the list of candidates tested by the call before it
EnterLookup_keeps_tested(fn, ln, url) ==
    /\ pc' = "start"
    /\ firstname' = fn
    /\ lastname' = ln
    /\ company_url' = url
    /\ domain' = << >>
    /\ full_name' = << >>
    /\ first' = None
    /\ middle' = None
    /\ last' = None
    /\ email_formats' = << >>
    /\ formats_tested' = formats_tested
    /\ i' = 0
    /\ net' = [kind |-> "none", body |-> {}]
    /\ api_result' = {}
    /\ result' = None
    /\ calls' = << >>
    /\ failed_at' = 0
    /\ all_raised' = TRUE
    /\ slept' = FALSE
    /\ first_ok' = 0

\* the locals of a call that has just been entered
EnterLookup(fn, ln, url) ==
    /\ pc' = "start"
    /\ firstname' = fn
    /\ lastname' = ln
    /\ company_url' = url
    /\ domain' = << >>
    /\ full_name' = << >>
    /\ first' = None
    /\ middle' = None
    /\ last' = None
    /\ email_formats' = << >>
    /\ formats_tested' = << >>
    /\ i' = 0
    /\ net' = [kind |-> "none", body |-> {}]
    /\ api_result' = {}
    /\ result' = None
    /\ calls' = << >>
    /\ failed_at' = 0
    /\ all_raised' = TRUE
    /\ slept' = FALSE
    /\ first_ok' = 0

\* domain = clean_domain(company_url); if not domain: return None
CheckDomain ==
    /\ pc = "start"
    /\ domain' = CleanDomain(company_url)
    /\ IF CleanDomain(company_url) = << >>
       THEN pc' = "done" /\ result' = None
       ELSE pc' = "parse" /\ UNCHANGED result
    /\ UNCHANGED <<firstname, lastname, company_url, full_name, first, middle, last,
                   email_formats, formats_tested, i, net, api_result, calls,
                   failed_at, all_raised, slept, first_ok>>
    /\ UNCHANGED <<batch_vars, fn_vars, ui_vars, li_vars, gen_vars>>

\* full_name = f"{firstname} {lastname}".strip()
FullName(fn, ln) == Strip(fn \o <<" ">> \o ln)

\* a name test that only stops on None, letting an empty first or last through
CheckName_tests_none_only ==
    /\ pc = "parse"
    /\ LET name == FullName(firstname, lastname)
           p == ParseName(name)
       IN  /\ full_name' = name
           /\ first' = p.first
           /\ middle' = p.middle
           /\ last' = p.last
           /\ IF p.first = None \/ p.last = None
              THEN /\ pc' = "done"
                   /\ result' = None
                   /\ UNCHANGED <<email_formats, generated>>
              ELSE /\ pc' = "loop"
                   /\ email_formats' =
                          GenerateEmailFormats(p.first[1], p.middle, p.last[1], domain)
                   /\ generated' =
                          Append(generated,
                                 [first_name |-> p.first[1],
                                  middle_name |-> p.middle,
                                  last_name |-> p.last[1],
                                  domain |-> domain,
                                  generated_emails |-> email_formats'])
                   /\ UNCHANGED result
    /\ UNCHANGED <<firstname, lastname, company_url, domain, formats_tested, i, net,
                   api_result, calls, failed_at, all_raised, slept, first_ok>>
    /\ UNCHANGED <<batch_vars, fn_vars, ui_vars, li_vars>>

\* first, middle, last = parse_name(full_name); if not first or not last: return None;
\* email_formats = generate_email_formats(first, middle, last, domain)
CheckName ==
    /\ pc = "parse"
    /\ LET name == FullName(firstname, lastname)
           p == ParseName(name)
       IN  /\ full_name' = name
           /\ first' = p.first
           /\ middle' = p.middle
           /\ last' = p.last
           /\ IF ~Truthy(p.first) \/ ~Truthy(p.last)
              THEN /\ pc' = "done"
                   /\ result' = None
                   /\ UNCHANGED <<email_formats, generated>>
              ELSE /\ pc' = "loop"
                   /\ email_formats' =
                          GenerateEmailFormats(p.first[1], p.middle, p.last[1], domain)
                   /\ generated' =
                          Append(generated,
                                 [first_name |-> p.first[1],
                                  middle_name |-> p.middle,
                                  last_name |-> p.last[1],
                                  domain |-> domain,
                                  generated_emails |-> email_formats'])
                   /\ UNCHANGED result
    /\ UNCHANGED <<firstname, lastname, company_url, domain, formats_tested, i, net,
                   api_result, calls, failed_at, all_raised, slept, first_ok>>
    /\ UNCHANGED <<batch_vars, fn_vars, ui_vars, li_vars>>

\* an enumeration that yields the first email at every index
CandidateAt_stuck(formats, idx) == formats[1]

\* an enumeration that walks the list from its end
CandidateAt_reversed(formats, idx) == formats[Len(formats) - idx]

\* the email that enumerate(email_formats) yields with index idx
CandidateAt(formats, idx) == formats[idx + 1]

\* the response o is one the acceptance test is meant to let through: no
\* exception, no 'error' key, a status outside invalid / disabled / unknown
ResponseAcceptable(o) ==
    /\ o.kind = "json"
    /\ ~Has(o.body, "error")
    /\ Has(o.body, "status")
    /\ Get(o.body, "status", "") \notin {"invalid", "disabled", "unknown"}

\* for i, email in enumerate(email_formats): formats_tested.append(email)
LoopHead ==
    /\ pc = "loop"
    /\ i < Len(email_formats)
    /\ formats_tested' = Append(formats_tested, CandidateAt(email_formats, i))
    /\ pc' = "call"
    /\ UNCHANGED <<firstname, lastname, company_url, domain, full_name, first, middle,
                   last, email_formats, i, net, api_result, result, calls,
                   failed_at, all_raised, slept, first_ok>>
    /\ UNCHANGED <<batch_vars, fn_vars, ui_vars, li_vars, gen_vars>>

\* the try block of one iteration: the oracle call for email_formats[i] and what
\* follows from its outcome o
Probe(o) ==
    /\ pc = "call"
    /\ LET email == CandidateAt(email_formats, i)
           r == VerifyEmailApi(o)
           go == AfterCall(r, i, Len(email_formats))
       IN  /\ calls' = Append(calls, email)
           /\ net' = o
           /\ api_result' = IF r.raised THEN api_result ELSE r.value
           /\ failed_at' = IF IsException(o) THEN i + 1 ELSE failed_at
           /\ all_raised' = (all_raised /\ IsException(o))
           /\ slept' = FALSE
           /\ first_ok' = IF first_ok = 0 /\ ResponseAcceptable(o) THEN i + 1 ELSE first_ok
           /\ IF go = "return"
              THEN /\ pc' = "done"
                   /\ result' = Some(FoundRecord(email, StatusOf(r.value), r.value))
                   /\ UNCHANGED i
              ELSE IF go = "sleep"
              THEN /\ pc' = "sleep"
                   /\ UNCHANGED <<result, i>>
              ELSE IF go = "next"
              THEN /\ pc' = "loop"
                   /\ i' = i + 1
                   /\ UNCHANGED result
              ELSE /\ pc' = "raised"
                   /\ UNCHANGED <<result, i>>
    /\ UNCHANGED <<firstname, lastname, company_url, domain, full_name, first, middle,
                   last, email_formats, formats_tested>>
    /\ UNCHANGED <<batch_vars, fn_vars, ui_vars, li_vars, gen_vars>>

\* time.sleep(0.3), then the next iteration
Sleep ==
    /\ pc = "sleep"
    /\ pc' = "loop"
    /\ i' = i + 1
    /\ slept' = TRUE
    /\ UNCHANGED <<firstname, lastname, company_url, domain, full_name, first, middle,
                   last, email_formats, formats_tested, net, api_result, result,
                   calls, failed_at, all_raised, first_ok>>
    /\ UNCHANGED <<batch_vars, fn_vars, ui_vars, li_vars, gen_vars>>

\* the loop is over: return the not_found dict
Exhausted ==
    /\ pc = "loop"
    /\ i >= Len(email_formats)
    /\ pc' = "done"
    /\ result' = Some(NotFoundRecord)
    /\ UNCHANGED <<firstname, lastname, company_url, domain, full_name, first, middle,
                   last, email_formats, formats_tested, i, net, api_result, calls,
                   failed_at, all_raised, slept, first_ok>>
    /\ UNCHANGED <<batch_vars, fn_vars, ui_vars, li_vars, gen_vars>>

Lookup ==
    \/ CheckDomain
    \/ CheckName
    \/ LoopHead
    \/ \E o \in NetOutcomes : Probe(o)
    \/ Sleep
    \/ Exhausted

----------------------------------------------------------------------------
(* The single-entry flow: one call of verify_single_email *)

FirstNames ==
    { <<"J","o","h","n">>,
      <<"a">>,
      <<"1","2","3">>,
      << >>,
      <<"J","o"," ","A","l">> }

LastNames ==
    { <<"S","m","i","t","h">>,
      <<"b">>,
      <<"4","5","6">>,
      << >> }

CompanyUrls ==
    { << >>,
      <<" ", "\r">>,
      <<"c","o","m","p","a","n","y",".","c","o","m">>,
      <<"h","t","t","p","s",":","/","/","W","w","w",".","E","x",".","c","o","/","a">> }

\* no lookup is running
LookupIdle ==
    /\ pc = "idle"
    /\ firstname = << >>
    /\ lastname = << >>
    /\ company_url = << >>
    /\ domain = << >>
    /\ full_name = << >>
    /\ first = None
    /\ middle = None
    /\ last = None
    /\ email_formats = << >>
    /\ formats_tested = << >>
    /\ i = 0
    /\ net = [kind |-> "none", body |-> {}]
    /\ api_result = {}
    /\ result = None
    /\ calls = << >>
    /\ failed_at = 0
    /\ all_raised = TRUE
    /\ slept = FALSE
    /\ first_ok = 0

\* no batch is running
BatchIdle ==
    /\ bpc = "single"
    /\ df = << >>
    /\ cleaned_df = << >>
    /\ row_pos = 0
    /\ total_rows = 0
    /\ total_api_calls = 0
    /\ verified_emails = << >>
    /\ rows_started = 0
    /\ oracle_calls = 0

\* no pure function is being applied
FnIdle ==
    /\ fn_pc = "idle"
    /\ fn_args = << >>
    /\ fn_out = << >>

\* no file has been uploaded in the optimized upload tab
UiIdle ==
    /\ uploaded_file = None
    /\ session_state = [column_mapping |-> None, mapping_confirmed |-> FALSE,
                        show_manual_selection |-> FALSE, last_file_name |-> None]
    /\ ui_event = "none"

\* find_linkedin_enhanced is not called
LiIdle ==
    /\ li_pc = 0
    /\ li_email = << >>
    /\ li_tried = << >>
    /\ li_result = None

Init ==
    /\ \E fn \in FirstNames, ln \in LastNames, url \in CompanyUrls :
          /\ pc = "start"
          /\ firstname = fn
          /\ lastname = ln
          /\ company_url = url
    /\ domain = << >>
    /\ full_name = << >>
    /\ first = None
    /\ middle = None
    /\ last = None
    /\ email_formats = << >>
    /\ formats_tested = << >>
    /\ i = 0
    /\ net = [kind |-> "none", body |-> {}]
    /\ api_result = {}
    /\ result = None
    /\ calls = << >>
    /\ failed_at = 0
    /\ all_raised = TRUE
    /\ slept = FALSE
    /\ first_ok = 0
    /\ generated = << >>
    /\ BatchIdle
    /\ FnIdle
    /\ UiIdle
    /\ LiIdle

Next == Lookup

\* the positions of a call that has not returned
Running == pc \in {"start", "parse", "loop", "call", "sleep"}

\* a call that has not returned moves on: every step of Lookup changes pc
Advance ==
    /\ Running
    /\ pc' \in {"start", "parse", "loop", "call", "sleep", "done", "raised"}
    /\ pc' # pc

\* a running call takes its next step in the end: the statements are
\* synchronous, the HTTP GET has timeout=30 and time.sleep(0.3) returns
LiveSpec == Init /\ [][Next]_vars /\ WF_pc(Advance)

Spec == Init /\ [][Next]_vars

----------------------------------------------------------------------------
(* Properties of one lookup, checked under Spec *)

Done == pc = "done"
Found == Done /\ result # None /\ result[1].email # None
ValidInputs == domain # << >> /\ Truthy(first) /\ Truthy(last)

\* the outcome of the most recent oracle call was acceptable: no exception, no
\* 'error' key, and a status outside invalid / disabled / unknown
LastResponseAcceptable ==
    /\ net.kind = "json"
    /\ ~Has(net.body, "error")
    /\ Has(net.body, "status")
    /\ Get(net.body, "status", "") \notin {"invalid", "disabled", "unknown"}

John == <<"J","o","h","n">>
Smith == <<"S","m","i","t","h">>
CompanyCom == <<"c","o","m","p","a","n","y",".","c","o","m">>
JSmithAtCompanyCom ==
    <<"j","s","m","i","t","h","@","c","o","m","p","a","n","y",".","c","o","m">>

\* C1: early stop.  As soon as the N-th call gets an acceptable response the
\* lookup is over: formats_tested has exactly N elements, found_on_attempt = N,
\* and the oracle was invoked for candidates 1..N only, never for N+1..total.
C1_EarlyStop ==
    LastResponseAcceptable =>
        /\ Done
        /\ result # None
        /\ LET N == Len(calls)
               rec == result[1]
           IN  /\ Len(rec.formats_tested) = N
               /\ rec.found_on_attempt = Some(N)
               /\ calls = SubSeq(email_formats, 1, N)
               /\ rec.formats_tested = calls

\* scenario 2: John Smith, the 6th of 11 candidates is the one accepted
C1_Witness ==
    /\ Found
    /\ firstname = John /\ lastname = Smith
    /\ result[1].found_on_attempt = Some(6)
    /\ result[1].total_formats_available = 11
    /\ Len(calls) = 6

\* C2: verify_single_email never raises, whatever the oracle does; with a valid
\* name and domain and an oracle that raises on every call it returns the
\* not_found outcome whose formats_tested is the full candidate list.
C2_NeverRaises ==
    /\ pc # "raised"
    /\ (Done /\ ValidInputs /\ all_raised) =>
          /\ result # None
          /\ result[1].status = "not_found"
          /\ result[1].email = None
          /\ result[1].formats_tested = email_formats
          /\ calls = email_formats

\* every one of the 11 calls for John Smith raised, and the lookup returned
C2_Witness ==
    /\ Done /\ ValidInputs /\ all_raised
    /\ Len(calls) = 11
    /\ net.kind = "Exception"
    /\ result # None

\* C3: acceptance policy.  The candidate just probed is accepted if and only if
\* its call returned without error a status outside invalid / disabled /
\* unknown; then email is that candidate and status is the returned status.
C3_AcceptancePolicy ==
    Len(calls) > 0 =>
        LET accepted == /\ Done
                        /\ result # None
                        /\ result[1].email = Some(calls[Len(calls)])
        IN  /\ accepted <=> LastResponseAcceptable
            /\ accepted =>
                  /\ result[1].status = Get(net.body, "status", "")
                  /\ result[1].status \notin {"invalid", "disabled", "unknown"}
            /\ Found => accepted

\* scenario 1: John Smith at company.com, jsmith@company.com accepted at rank 1
C3_Witness ==
    /\ Found
    /\ firstname = John /\ lastname = Smith /\ company_url = CompanyCom
    /\ result[1].email = Some(JSmithAtCompanyCom)
    /\ result[1].found_on_attempt = Some(1)
    /\ result[1].status = "catch_all"

\* C4: exhaustion.  When the loop completes with no candidate accepted the
\* outcome has status not_found, no email, no found_on_attempt, formats_tested
\* equal to the full candidate list and total_formats_available equal to its
\* length, which is 11 for John Smith.
C4_Exhaustion ==
    (Done /\ ValidInputs /\ ~LastResponseAcceptable) =>
        /\ result # None
        /\ result[1].status = "not_found"
        /\ result[1].email = None
        /\ result[1].found_on_attempt = None
        /\ result[1].formats_tested = email_formats
        /\ result[1].total_formats_available = Len(email_formats)
        /\ (firstname = John /\ lastname = Smith) =>
               result[1].total_formats_available = 11

\* scenario 3: all 11 candidates of John Smith were rejected with a status
C4_Witness ==
    /\ Done /\ ValidInputs
    /\ firstname = John /\ lastname = Smith
    /\ net.kind = "json" /\ Get(net.body, "status", "") = "invalid"
    /\ Len(calls) = 11
    /\ result # None /\ result[1].status = "not_found"

\* C7: an empty cleaned domain yields an outcome record with status
\* invalid_domain, formats_tested = [] and total_formats_available = 0.
C7_InvalidDomainRecord ==
    (Done /\ CleanDomain(company_url) = << >>) =>
        /\ result # None
        /\ result[1].status = "invalid_domain"
        /\ result[1].formats_tested = << >>
        /\ result[1].total_formats_available = 0

\* C8: with a valid domain and a name without usable letters the outcome is a
\* record with status invalid_names, formats_tested = [] and
\* total_formats_available = 0.
C8_InvalidNamesRecord ==
    (Done /\ domain # << >> /\ (~Truthy(first) \/ ~Truthy(last))) =>
        /\ result # None
        /\ result[1].status = "invalid_names"
        /\ result[1].formats_tested = << >>
        /\ result[1].total_formats_available = 0

\* C10: a transport failure is absorbed.  No exception leaves the lookup; when
\* the call for candidate k failed and k is not the last candidate, candidate
\* k+1 was probed; a candidate accepted after a failure has found_on_attempt
\* equal to its 1-based position in the candidate list.
C10_FailureAbsorbed ==
    /\ pc # "raised"
    /\ failed_at > 0 =>
          /\ calls = SubSeq(email_formats, 1, Len(calls))
          /\ (failed_at = Len(calls) /\ failed_at < Len(email_formats)) =>
                 pc \in {"sleep", "loop", "call"}
          /\ (Done /\ failed_at < Len(email_formats)) =>
                 /\ Len(calls) > failed_at
                 /\ calls[failed_at + 1] = email_formats[failed_at + 1]
          /\ (Done /\ failed_at = Len(calls)) =>
                 (result # None /\ result[1].email = None)
          /\ Found =>
                 /\ result[1].found_on_attempt # None
                 /\ result[1].found_on_attempt[1] \in 1..Len(email_formats)
                 /\ email_formats[result[1].found_on_attempt[1]] = result[1].email[1]
                 /\ result[1].found_on_attempt[1] > failed_at

\* the 2nd call failed and the 4th candidate was then accepted as attempt 4
C10_Witness ==
    /\ Found
    /\ failed_at = 2
    /\ Len(calls) = 4
    /\ result[1].found_on_attempt = Some(4)

\* C11: strictly sequential, in-order probing.  The oracle is called for the
\* candidates in the generated order with none skipped; a candidate is fetched
\* for the next call only after the previous call was answered; the accepted
\* candidate is the first one whose response was acceptable, every candidate
\* before it having been probed and rejected or failed.
C11_SequentialInOrder ==
    /\ calls = SubSeq(email_formats, 1, Len(calls))
    /\ formats_tested = SubSeq(email_formats, 1, Len(formats_tested))
    /\ Len(formats_tested) = Len(calls) + (IF pc = "call" THEN 1 ELSE 0)
    /\ first_ok > 0 => Found
    /\ Found =>
          /\ result[1].found_on_attempt = Some(first_ok)
          /\ result[1].email = Some(email_formats[first_ok])
          /\ Len(calls) = first_ok
    /\ (Done /\ ValidInputs /\ ~Found) => (first_ok = 0 /\ calls = email_formats)

\* the 3rd candidate is accepted after a rejected 1st and a failed 2nd call
C11_Witness ==
    /\ Found
    /\ first_ok = 3
    /\ failed_at = 2
    /\ calls = SubSeq(email_formats, 1, 3)
    /\ Len(email_formats) = 11

\* the most recent oracle call returned a dict with a forbidden status
LastResponseForbidden ==
    /\ net.kind = "json"
    /\ ~Has(net.body, "error")
    /\ Has(net.body, "status")
    /\ Get(net.body, "status", "") \in {"invalid", "disabled", "unknown"}

\* C12: delay rule.  After a candidate that is not the last one got a forbidden
\* status the delay is waited before the next oracle call; no delay follows the
\* final candidate or an accepted candidate.
C12_DelayRule ==
    /\ (pc = "call" /\ Len(calls) > 0 /\ LastResponseForbidden) => slept
    /\ pc = "sleep" =>
          /\ Len(calls) < Len(email_formats)
          /\ ~LastResponseAcceptable
    /\ Done => ~slept

\* the 2nd call is about to be made after the delay that followed status invalid
C12_Witness ==
    /\ pc = "call"
    /\ Len(calls) = 1
    /\ net.kind = "json" /\ Get(net.body, "status", "") = "invalid"
    /\ slept

\* C13: between any two consecutive oracle calls of one lookup the delay
\* elapses, whatever the earlier call's outcome: a forbidden status, a
\* transport error returned as a value, or an exception raised by the call.
C13_DelayBetweenCalls ==
    (pc = "call" /\ Len(calls) > 0) => slept

\* C19: tried-list accounting.  In every outcome formats_tested is the sequence
\* of candidates sent to the oracle, in call order, and a prefix of the full
\* generated list; total_formats_available is the length of the full list
\* wherever the search stopped.
C19_TriedListAccounting ==
    (Done /\ result # None) =>
        LET rec == result[1]
            full == GenerateEmailFormats(first[1], middle, last[1], domain)
        IN  /\ rec.formats_tested = calls
            /\ rec.formats_tested = SubSeq(full, 1, Len(calls))
            /\ Len(calls) <= Len(full)
            /\ rec.total_formats_available = Len(full)

\* Jo Al Smith: the search stopped at the 3rd of 14 candidates
C19_Witness ==
    /\ Found
    /\ Len(calls) = 3
    /\ Len(result[1].formats_tested) = 3
    /\ result[1].total_formats_available = 14

\* C22: invalid input is terminal before any probing.  With an empty cleaned
\* domain, or an empty parsed first or last name, verify_single_email returns
\* having made no oracle call and inserted no delay.
C22_InvalidInputNoProbe ==
    /\ (pc \in {"loop", "call", "sleep"}) => ValidInputs
    /\ (Done /\ ~ValidInputs) =>
          /\ result = None
          /\ calls = << >>
          /\ formats_tested = << >>
          /\ ~slept
          /\ net.kind = "none"

\* "123 Smith" at company.com: the first name parses to '' and the call is over
C22_Witness ==
    /\ Done
    /\ domain = CompanyCom
    /\ first = Some(<< >>)
    /\ last = Some(<<"s","m","i","t","h">>)
    /\ calls = << >>

\* no candidate occurs twice among the oracle calls made so far
NoRepeatedCall ==
    \A j, k \in DOMAIN calls : calls[j] = calls[k] => j = k

\* C23: bounded work and termination.  Every call of verify_single_email
\* terminates; it makes at most total_formats_available (at most 14) oracle
\* calls and sends no candidate to the oracle twice.
C23_BoundedWork ==
    /\ [](/\ Len(calls) <= Len(email_formats)
          /\ Len(email_formats) <= 14
          /\ NoRepeatedCall
          /\ (Done /\ result # None) =>
                Len(calls) <= result[1].total_formats_available)
    /\ <>Done

\* Jo Al Smith: all 14 candidates were sent, each once, and the call is over
C23_Witness ==
    /\ Done
    /\ Len(calls) = 14
    /\ result # None
    /\ result[1].total_formats_available = 14
    /\ NoRepeatedCall

\* C25: outcome consistency.  In every non-None outcome email is present iff
\* found_on_attempt is; when present, 1 <= found_on_attempt =
\* len(formats_tested) <= total_formats_available, email is the last element of
\* formats_tested and one of the generated candidates, and its domain part is
\* the outcome's company, the cleaned domain.
C25_OutcomeConsistency ==
    (Done /\ result # None) =>
        LET rec == result[1]
        IN  /\ rec.email # None <=> rec.found_on_attempt # None
            /\ rec.company = CleanDomain(company_url)
            /\ rec.email # None =>
                  LET n == rec.found_on_attempt[1]
                      e == rec.email[1]
                      d == Len(rec.company)
                  IN  /\ 1 <= n
                      /\ n = Len(rec.formats_tested)
                      /\ n <= rec.total_formats_available
                      /\ e = rec.formats_tested[n]
                      /\ \E k \in DOMAIN email_formats : email_formats[k] = e
                      /\ Len(e) > d + 1
                      /\ SubSeq(e, Len(e) - d + 1, Len(e)) = rec.company
                      /\ e[Len(e) - d] = "@"

\* the URL https://Www.Ex.co/a: the 2nd candidate is accepted at ex.co
C25_Witness ==
    /\ Found
    /\ company_url # domain
    /\ result[1].company = <<"e","x",".","c","o">>
    /\ result[1].found_on_attempt = Some(2)
    /\ result[1].email = Some(email_formats[2])

\* the most recent oracle call returned a non-empty dict with neither an
\* 'error' nor a 'status' key
LastResponseWithoutStatus ==
    /\ net.kind = "json"
    /\ net.body # {}
    /\ ~Has(net.body, "error")
    /\ ~Has(net.body, "status")

\* C26: a successful response without a status field counts as status unknown
\* and is never accepted: the search goes on with the next candidate.
C26_MissingStatusRejected ==
    LastResponseWithoutStatus =>
        /\ first_ok # Len(calls)
        /\ ~Found
        /\ pc \in {"sleep", "loop", "call", "done"}
        /\ Done => (result = Some(NotFoundRecord) /\ calls = email_formats)
        /\ pc = "sleep" => (Len(calls) = i + 1 /\ i + 1 < Len(email_formats))
        /\ pc = "loop" => i = Len(calls)

\* the 1st candidate got {"email": ...} and the delay before the 2nd is due
C26_Witness ==
    /\ pc = "sleep"
    /\ LastResponseWithoutStatus
    /\ Len(calls) = 1
    /\ Len(email_formats) > 1

----------------------------------------------------------------------------
(* generate_email_formats applied to drawn arguments *)

GenFirsts ==
    { << >>, <<"a">>, <<"j","o">>, <<"j","o","h","n">> }

GenMiddles ==
    { None, Some(<< >>), Some(<<"q">>), Some(<<"a","l">>) }

GenLasts ==
    { << >>, <<"a">>, <<"b">>, <<"j","o">>, <<"s","m","i","t","h">> }

GenDomains ==
    { <<"x",".","c","o">>, <<"c","o","m","p","a","n","y",".","c","o","m">>,
      <<"a","@","b">> }

\* hosts as clean_domain is to return them, each with spellings that differ
\* from it in letter case only
HostSpellings ==
    { [host |-> <<"e","x","a","m","p","l","e",".","c","o","m">>, spelt |-> <<"e","x","a","m","p","l","e",".","c","o","m">>],
      [host |-> <<"e","x","a","m","p","l","e",".","c","o","m">>, spelt |-> <<"E","x","a","m","p","l","e",".","c","o","m">>],
      [host |-> <<"e","x","a","m","p","l","e",".","c","o","m">>, spelt |-> <<"E","X","A","M","P","L","E",".","C","O","M">>],
      [host |-> <<"x",".","c","o">>, spelt |-> <<"x",".","c","o">>],
      [host |-> <<"x",".","c","o">>, spelt |-> <<"X",".","c","O">>],
      [host |-> <<"é",".","c","o">>, spelt |-> <<"É",".","c","o">>],
      [host |-> << >>, spelt |-> << >>] }

Schemes ==
    { << >>, <<"h","t","t","p",":","/","/">>, <<"h","t","t","p","s",":","/","/">>, <<"H","T","T","P","S",":","/","/">>, <<"H","t","t","p",":","/","/">> }

WwwPrefixes ==
    { << >>, <<"w","w","w",".">>, <<"W","W","W",".">>, <<"W","w","w",".">> }

TrailingPaths ==
    { << >>, <<"/">>, <<"/","A","b","o","u","t">>, <<"/","a","/","b">> }

Paddings ==
    { << >>, <<" ", "\r">>, <<"\t", " ", "">> }

\* arguments of clean_domain: a host decorated with padding, scheme, www. and path
CleanArgs ==
    { [host |-> hs.host,
       domain_raw |-> lp \o sc \o w \o hs.spelt \o tp \o rp] :
         hs \in HostSpellings, sc \in Schemes, w \in WwwPrefixes,
         tp \in TrailingPaths, lp \in Paddings, rp \in Paddings }

\* what may precede the host in the argument of clean_domain, also repeated
LeadingParts ==
    { << >>, <<"h","t","t","p",":","/","/">>, <<"h","t","t","p","s",":","/","/">>, <<"w","w","w",".">>, <<"W","W","W",".">> }

\* arguments of clean_domain with up to two leading parts
RepeatedPrefixArgs ==
    { [domain_raw |-> lp \o a \o b \o hs.spelt \o tp \o rp] :
         a \in LeadingParts, b \in LeadingParts, hs \in HostSpellings,
         tp \in TrailingPaths, lp \in Paddings, rp \in Paddings }

MaxTokens == 4

NameTokens ==
    { <<"J","o","h","n">>, <<"a">>, <<"1","2">>, <<"É","'","N">>, <<"S","m","i","t","h">> }

TokenSeparators ==
    { <<" ">>, <<"\f"," ">>, <<"">>, <<"\n", "">> }

RECURSIVE TokenLists(_)
TokenLists(n) ==
    IF n = 0 THEN { << >> }
    ELSE LET shorter == TokenLists(n - 1)
         IN  shorter \cup { Append(ts, t) : ts \in { x \in shorter : Len(x) = n - 1 },
                                            t \in NameTokens }

\* arguments of parse_name: up to MaxTokens tokens, one separator between the
\* tokens, padding around them
ParseArgs ==
    { [tokens |-> ts, full_name |-> lp \o Join(sep, ts) \o rp] :
         ts \in TokenLists(MaxTokens), sep \in TokenSeparators,
         lp \in Paddings, rp \in Paddings }

FnInit ==
    /\ \/ /\ fn_pc = "ready"
          /\ fn_args \in [first_name : GenFirsts, middle_name : GenMiddles,
                          last_name : GenLasts, domain : GenDomains]
       \/ /\ fn_pc = "ready_clean"
          /\ fn_args \in CleanArgs
       \/ /\ fn_pc = "ready_parse"
          /\ fn_args \in ParseArgs
       \/ /\ fn_pc = "ready_clean_twice"
          /\ fn_args \in RepeatedPrefixArgs
    /\ fn_out = << >>
    /\ LookupIdle
    /\ generated = << >>
    /\ UiIdle
    /\ LiIdle
    /\ bpc = "idle"
    /\ df = << >>
    /\ cleaned_df = << >>
    /\ row_pos = 0
    /\ total_rows = 0
    /\ total_api_calls = 0
    /\ verified_emails = << >>
    /\ rows_started = 0
    /\ oracle_calls = 0

\* what one call of generate_email_formats builds: the raw potential_locals
\* and the list it returns
CallGenerate(args) ==
    [potential_locals |->
         PotentialLocals(args.first_name, args.middle_name, args.last_name),
     generated_emails |->
         GenerateEmailFormats(args.first_name, args.middle_name,
                              args.last_name, args.domain)]

\* one call of generate_email_formats: the raw potential_locals and the list
\* it returns
ApplyGenerate ==
    /\ fn_pc = "ready"
    /\ fn_pc' = "done"
    /\ fn_out' = CallGenerate(fn_args)
    /\ UNCHANGED fn_args
    /\ UNCHANGED <<lookup_vars, batch_vars, ui_vars, li_vars, gen_vars>>

\* one call of clean_domain
ApplyCleanDomain ==
    /\ fn_pc = "ready_clean"
    /\ fn_pc' = "done_clean"
    /\ fn_out' = CleanDomain(fn_args.domain_raw)
    /\ UNCHANGED fn_args
    /\ UNCHANGED <<lookup_vars, batch_vars, ui_vars, li_vars, gen_vars>>

\* one call of parse_name
ApplyParseName ==
    /\ fn_pc = "ready_parse"
    /\ fn_pc' = "done_parse"
    /\ fn_out' = ParseName(fn_args.full_name)
    /\ UNCHANGED fn_args
    /\ UNCHANGED <<lookup_vars, batch_vars, ui_vars, li_vars, gen_vars>>

\* clean_domain, and clean_domain again on what it returned
ApplyCleanDomainTwice ==
    /\ fn_pc = "ready_clean_twice"
    /\ fn_pc' = "done_clean_twice"
    /\ fn_out' = [once |-> CleanDomain(fn_args.domain_raw),
                  twice |-> CleanDomain(CleanDomain(fn_args.domain_raw))]
    /\ UNCHANGED fn_args
    /\ UNCHANGED <<lookup_vars, batch_vars, ui_vars, li_vars, gen_vars>>

FnNext ==
    \/ ApplyGenerate
    \/ ApplyCleanDomain
    \/ ApplyCleanDomainTwice
    \/ ApplyParseName

FnSpec == FnInit /\ [][FnNext]_vars

----------------------------------------------------------------------------
(* Properties of generate_email_formats, checked under FnSpec *)

Generated == fn_pc = "done"

\* C5 as stated: with first and last non-empty the raw local parts are the
\* eleven non-middle patterns in the listed order, followed, only when a middle
\* name is present, by f+m+l, first.m.last, f+m+last.
C5_MiddlePatternsLast ==
    (Generated /\ fn_args.first_name # << >> /\ fn_args.last_name # << >>) =>
        LET fst == fn_args.first_name
            lst == fn_args.last_name
            f == <<fst[1]>>
            l == <<lst[1]>>
            hasM == Truthy(fn_args.middle_name)
            m == IF hasM THEN <<fn_args.middle_name[1][1]>> ELSE << >>
        IN  fn_out.potential_locals =
                << f \o lst, fst, fst \o <<".">> \o lst, lst, f \o l, fst \o lst,
                   fst \o l, lst \o f, lst \o <<".">> \o f, lst \o fst,
                   fst \o <<"_">> \o lst >>
                \o (IF hasM
                    THEN << f \o m \o l,
                            fst \o <<".">> \o m \o <<".">> \o lst,
                            f \o m \o lst >>
                    ELSE << >>)

\* C5 as amended: with first and last non-empty the raw local parts are, in
\* order, f+last, first, first.last, last, f+l, first+last, first+l, last+f,
\* last.f, [f+m+l], last+first, [first.m.last], [f+m+last], first_last, the
\* bracketed ones only when a middle name is present; with an empty first
\* (last) only the pattern last (first) is left, with both empty none.
C5_SourceOrder ==
    Generated =>
        LET fst == fn_args.first_name
            lst == fn_args.last_name
            f == Initial(fst)
            l == Initial(lst)
            hasM == Truthy(fn_args.middle_name)
            m == IF hasM THEN <<fn_args.middle_name[1][1]>> ELSE << >>
            opt(x) == IF hasM THEN <<x>> ELSE << >>
        IN  fn_out.potential_locals =
              IF fst # << >> /\ lst # << >>
              THEN << f \o lst, fst, fst \o <<".">> \o lst, lst, f \o l,
                      fst \o lst, fst \o l, lst \o f, lst \o <<".">> \o f >>
                   \o opt(f \o m \o l)
                   \o << lst \o fst >>
                   \o opt(fst \o <<".">> \o m \o <<".">> \o lst)
                   \o opt(f \o m \o lst)
                   \o << fst \o <<"_">> \o lst >>
              ELSE IF fst # << >> THEN << fst >>
              ELSE IF lst # << >> THEN << lst >>
              ELSE << >>

\* john al smith: 14 raw patterns, jas in 10th place and john_smith last
C5_Witness ==
    /\ Generated
    /\ fn_args.first_name = <<"j","o","h","n">>
    /\ fn_args.middle_name = Some(<<"a","l">>)
    /\ fn_args.last_name = <<"s","m","i","t","h">>
    /\ Len(fn_out.potential_locals) = 14
    /\ fn_out.potential_locals[10] = <<"j","a","s">>
    /\ fn_out.potential_locals[14] = <<"j","o","h","n","_","s","m","i","t","h">>

\* index of the first occurrence of x in xs
FirstIndex(xs, x) == CHOOSE k \in DOMAIN xs : xs[k] = x /\ \A j \in 1..(k - 1) : xs[j] # x

\* C6: the returned list has no two entries with the same local part, holds
\* every raw local part with the domain appended, and keeps the entries in the
\* order of their first occurrence in the raw pattern sequence.
C6_Deduplicated ==
    Generated =>
        LET E == fn_out.generated_emails
            R == fn_out.potential_locals
        IN  /\ \A a, b \in DOMAIN E : a # b => LocalPart(E[a]) # LocalPart(E[b])
            /\ \A a \in DOMAIN E : E[a] = LocalPart(E[a]) \o <<"@">> \o fn_args.domain
            /\ {LocalPart(E[a]) : a \in DOMAIN E} = {R[k] : k \in DOMAIN R}
            /\ \A a, b \in DOMAIN E :
                  a < b => FirstIndex(R, LocalPart(E[a])) < FirstIndex(R, LocalPart(E[b]))

\* first = last = jo: jo, jojo and joj each come from two patterns, 8 of the 11
\* raw local parts are left
C6_Witness ==
    /\ Generated
    /\ fn_args.first_name = <<"j","o">>
    /\ fn_args.last_name = <<"j","o">>
    /\ fn_args.middle_name = None
    /\ Len(fn_out.potential_locals) = 11
    /\ Len(fn_out.generated_emails) = 8

----------------------------------------------------------------------------
(* Properties of clean_domain, checked under FnSpec *)

Cleaned == fn_pc = "done_clean"

\* C14: domain canonicalization.  An input that differs from a host h only by
\* a leading http:// or https:// (any case), a leading www. (any case), a
\* trailing path from the first '/', surrounding whitespace, or letter case is
\* cleaned to the lowercased h.
C14_Canonical ==
    Cleaned => fn_out = fn_args.host

\* HTTPS://WWW.EXAMPLE.COM/About between tab, U+00A0, vertical tab and space,
\* carriage return is cleaned to example.com
C14_Witness ==
    /\ Cleaned
    /\ fn_args.domain_raw =
          <<"\t", " ", "">> \o <<"H","T","T","P","S",":","/","/">> \o <<"W","W","W",".">>
          \o <<"E","X","A","M","P","L","E",".","C","O","M">>
          \o <<"/","A","b","o","u","t">> \o <<" ", "\r">>
    /\ fn_out = <<"e","x","a","m","p","l","e",".","c","o","m">>

\* C28: clean_domain is idempotent: clean_domain(clean_domain(x)) =
\* clean_domain(x) for every string x; its result holds no scheme, leading
\* www., path, uppercase letter or surrounding whitespace any more.
C28_Idempotent ==
    fn_pc = "done_clean_twice" =>
        /\ fn_out.twice = fn_out.once
        /\ StripPrefixCI(fn_out.once, <<"w","w","w",".">>) = fn_out.once

----------------------------------------------------------------------------
(* Properties of parse_name, checked under FnSpec *)

Parsed == fn_pc = "done_parse"

NoName == [first |-> None, middle |-> None, last |-> None]

\* a token lowercased and reduced to the letters a-z
LowerLetters(token) == LettersOnly(Lower(token))

\* the interior tokens, each lowercased and reduced to letters, put together
RECURSIVE InteriorLetters(_)
InteriorLetters(tokens) ==
    IF Len(tokens) <= 2 THEN << >>
    ELSE LowerLetters(tokens[2])
         \o InteriorLetters(<<tokens[1]>> \o SubSeq(tokens, 3, Len(tokens)))

\* C15: single-token names.  For a name of exactly one token x with at least
\* one letter parse_name returns (x', None, x'), x' being x lowercased with the
\* non-letters removed.
C15_SingleToken ==
    (Parsed /\ Len(fn_args.tokens) = 1 /\ LowerLetters(fn_args.tokens[1]) # << >>) =>
        fn_out = [first |-> Some(LowerLetters(fn_args.tokens[1])),
                  middle |-> None,
                  last |-> Some(LowerLetters(fn_args.tokens[1]))]

\* "É'N" after a space and a carriage return gives (n, None, n)
C15_Witness ==
    /\ Parsed
    /\ fn_args.tokens = << <<"É","'","N">> >>
    /\ fn_args.full_name = <<" ","\r","É","'","N">>
    /\ fn_out = [first |-> Some(<<"n">>), middle |-> None,
                 last |-> Some(<<"n">>)]

\* what C16 describes for two or more tokens
TokenwiseName(tokens) ==
    [first |-> Some(LowerLetters(tokens[1])),
     middle |-> IF Len(tokens) >= 3 THEN Some(InteriorLetters(tokens)) ELSE None,
     last |-> Some(LowerLetters(tokens[Len(tokens)]))]

\* C16 as stated: for every name of two or more tokens first comes from the
\* first token, last from the final token and middle from the interior tokens
\* (absent for two tokens), each lowercased and reduced to letters a-z.
C16_Tokenwise ==
    (Parsed /\ Len(fn_args.tokens) >= 2) => fn_out = TokenwiseName(fn_args.tokens)

\* C16 as amended: the same, unless neither the first nor the final token
\* holds a letter, in which case the result is (None, None, None).
C16_TokenwiseUnlessNoName ==
    (Parsed /\ Len(fn_args.tokens) >= 2) =>
        LET tokens == fn_args.tokens
        IN  IF LowerLetters(tokens[1]) = << >> /\ LowerLetters(tokens[Len(tokens)]) = << >>
            THEN fn_out = NoName
            ELSE fn_out = TokenwiseName(tokens)

\* "John É'N 12 Smith" gives (john, n, smith)
C16_Witness ==
    /\ Parsed
    /\ fn_args.tokens = << <<"J","o","h","n">>, <<"É","'","N">>, <<"1","2">>,
                           <<"S","m","i","t","h">> >>
    /\ fn_out = [first |-> Some(<<"j","o","h","n">>), middle |-> Some(<<"n">>),
                 last |-> Some(<<"s","m","i","t","h">>)]

\* C17: parse_name returns (None, None, None) exactly when the input has no
\* token or, after the non-letters are stripped, first and last are both
\* empty; in every other case it returns a first and a last.
C17_FailsIffNothingUsable ==
    Parsed =>
        LET tokens == fn_args.tokens
            n == Len(tokens)
            nothing == \/ n = 0
                       \/ /\ LowerLetters(tokens[1]) = << >>
                          /\ (n = 1 \/ LowerLetters(tokens[n]) = << >>)
        IN  /\ fn_out = NoName <=> nothing
            /\ fn_out # NoName =>
                  /\ fn_out.first # None
                  /\ fn_out.last # None
                  /\ (fn_out.first[1] # << >> \/ fn_out.last[1] # << >>)

\* "12 Smith" keeps an empty first next to the last smith
C17_Witness ==
    /\ Parsed
    /\ fn_args.tokens = << <<"1","2">>, <<"S","m","i","t","h">> >>
    /\ fn_out = [first |-> Some(<< >>), middle |-> None,
                 last |-> Some(<<"s","m","i","t","h">>)]

----------------------------------------------------------------------------
(* The batch flow: the cleaning of the uploaded table and the row loop of    *)
(* run_smart_verification (the loop of render_csv_upload_tab is the same)    *)

MaxRows == 2

\* cells of an uploaded row; None is a missing (NaN) cell
CellA == Some(<<"a">>)
CellB == Some(<<"b">>)
CellXCo == Some(<<"x",".","c","o">>)

UploadRows ==
    { [firstname |-> CellA, lastname |-> CellB, companyURL |-> CellXCo],
      [firstname |-> Some(<<" ", " ">>), lastname |-> CellB, companyURL |-> CellXCo],
      [firstname |-> None, lastname |-> CellB, companyURL |-> CellXCo],
      [firstname |-> Some(<<"1","2">>), lastname |-> CellB, companyURL |-> CellXCo],
      [firstname |-> CellA, lastname |-> CellB, companyURL |-> Some(<<"/">>)] }

UploadTables == UNION { [1..n -> UploadRows] : n \in 1..MaxRows }

\* a cleaning that only drops the rows with a missing cell
RowKept_dropna_only(row) ==
    row.firstname # None /\ row.lastname # None /\ row.companyURL # None

\* dropna(), then the three str.strip() != '' tests; the surviving rows keep the
\* index labels 0, 1, ... they had in the uploaded table
RowKept(row) ==
    /\ row.firstname # None /\ row.lastname # None /\ row.companyURL # None
    /\ Strip(row.firstname[1]) # << >>
    /\ Strip(row.lastname[1]) # << >>
    /\ Strip(row.companyURL[1]) # << >>

RECURSIVE CleanRows(_, _)
CleanRows(table, k) ==
    IF k > Len(table) THEN << >>
    ELSE (IF RowKept(table[k])
          THEN << [index |-> k - 1,
                   firstname |-> table[k].firstname[1],
                   lastname |-> table[k].lastname[1],
                   companyURL |-> table[k].companyURL[1]] >>
          ELSE << >>)
         \o CleanRows(table, k + 1)

\* progress_bar.progress(value) accepts a value in [0.0, 1.0] and raises otherwise
ProgressAccepted(index, total) == index + 1 >= 0 /\ index + 1 <= total

\* api_calls_used = result.get('found_on_attempt',
\*                             result.get('total_formats_available', 0)):
\* both dicts verify_single_email returns hold the key found_on_attempt, so its
\* value is what comes back, None for the not_found dict
ApiCallsUsed(rec) == rec.found_on_attempt

\* the entry appended to verified_emails
VerifiedEntry(rec) ==
    [firstname |-> rec.firstname, lastname |-> rec.lastname,
     company |-> rec.company, email |-> rec.email[1], status |-> rec.status,
     found_on_attempt |-> rec.found_on_attempt,
     total_formats_tested |-> rec.total_formats_available]

BatchInit ==
    /\ bpc = "uploaded"
    /\ df \in UploadTables
    /\ cleaned_df = << >>
    /\ row_pos = 0
    /\ total_rows = 0
    /\ total_api_calls = 0
    /\ verified_emails = << >>
    /\ rows_started = 0
    /\ oracle_calls = 0
    /\ LookupIdle
    /\ generated = << >>
    /\ UiIdle
    /\ LiIdle
    /\ FnIdle

\* the cleaning of the mapped columns; with no row left the tab returns
CleanData ==
    /\ bpc = "uploaded"
    /\ cleaned_df' = CleanRows(df, 1)
    /\ bpc' = IF CleanRows(df, 1) = << >> THEN "no_valid_rows" ELSE "cleaned"
    /\ UNCHANGED <<df, row_pos, total_rows, total_api_calls, verified_emails,
                   rows_started, oracle_calls>>
    /\ UNCHANGED <<lookup_vars, fn_vars, ui_vars, li_vars, gen_vars>>

\* the Start button: verified_emails = [], total_rows = len(df), total_api_calls = 0
StartVerification ==
    /\ bpc = "cleaned"
    /\ bpc' = "loop"
    /\ verified_emails' = << >>
    /\ total_rows' = Len(cleaned_df)
    /\ total_api_calls' = 0
    /\ row_pos' = 0
    /\ UNCHANGED <<df, cleaned_df, rows_started, oracle_calls>>
    /\ UNCHANGED <<lookup_vars, fn_vars, ui_vars, li_vars, gen_vars>>

\* the head of one iteration: the progress update, then the call of
\* verify_single_email with the stripped cells
RowBegin ==
    /\ bpc = "loop"
    /\ row_pos < Len(cleaned_df)
    /\ LET row == cleaned_df[row_pos + 1]
       IN  IF ProgressAccepted(row.index, total_rows)
           THEN /\ bpc' = "verifying"
                /\ rows_started' = rows_started + 1
                /\ EnterLookup(Strip(row.firstname), Strip(row.lastname),
                               Strip(row.companyURL))
           ELSE /\ bpc' = "progress_error"
                /\ UNCHANGED rows_started
                /\ UNCHANGED lookup_vars
    /\ UNCHANGED <<df, cleaned_df, row_pos, total_rows, total_api_calls,
                   verified_emails, oracle_calls>>
    /\ UNCHANGED <<fn_vars, ui_vars, li_vars, gen_vars>>

\* the rest of the iteration, once verify_single_email has returned
RowEnd ==
    /\ bpc = "verifying"
    /\ pc = "done"
    /\ IF result = None
       THEN /\ bpc' = "loop"
            /\ row_pos' = row_pos + 1
            /\ UNCHANGED <<total_api_calls, verified_emails>>
       ELSE IF ApiCallsUsed(result[1]) = None
       THEN \* total_api_calls += None raises TypeError
            /\ bpc' = "type_error"
            /\ UNCHANGED <<row_pos, total_api_calls, verified_emails>>
       ELSE /\ bpc' = "loop"
            /\ row_pos' = row_pos + 1
            /\ total_api_calls' = total_api_calls + ApiCallsUsed(result[1])[1]
            /\ verified_emails' =
                   IF Truthy(result[1].email)
                   THEN Append(verified_emails, VerifiedEntry(result[1]))
                   ELSE verified_emails
    /\ pc' = "idle"
    /\ UNCHANGED <<firstname, lastname, company_url, domain, full_name, first, middle,
                   last, email_formats, formats_tested, i, net, api_result, result,
                   calls, failed_at, all_raised, slept, first_ok>>
    /\ oracle_calls' = oracle_calls + Len(calls)
    /\ UNCHANGED <<df, cleaned_df, total_rows, rows_started>>
    /\ UNCHANGED <<fn_vars, ui_vars, li_vars, gen_vars>>

\* after the last row: progress_bar.progress(1.0) and the summary
BatchComplete ==
    /\ bpc = "loop"
    /\ row_pos >= Len(cleaned_df)
    /\ bpc' = "completed"
    /\ UNCHANGED <<df, cleaned_df, row_pos, total_rows, total_api_calls,
                   verified_emails, rows_started, oracle_calls>>
    /\ UNCHANGED <<lookup_vars, fn_vars, ui_vars, li_vars, gen_vars>>

BatchNext ==
    \/ CleanData
    \/ StartVerification
    \/ RowBegin
    \/ Lookup
    \/ RowEnd
    \/ BatchComplete

BatchSpec == BatchInit /\ [][BatchNext]_vars

----------------------------------------------------------------------------
(* Properties of the batch loop, checked under BatchSpec *)

\* C9: whatever a row's lookup yields (accepted, not_found, invalid input,
\* oracle failures), no exception escapes the step that consumes it, the loop
\* goes on, and a batch that has ended has run the lookup of every cleaned row.
C9_BatchGoesOn ==
    /\ bpc # "type_error"
    /\ bpc = "completed" => rows_started = Len(cleaned_df)

\* a cell that is present and holds more than whitespace
CellUsable(cell) == cell # None /\ \E k \in DOMAIN cell[1] : ~IsSpace(cell[1][k])

RowUsable(row) ==
    CellUsable(row.firstname) /\ CellUsable(row.lastname) /\ CellUsable(row.companyURL)

\* C18: batch input filtering.  Rows with a missing or whitespace-only
\* firstname, lastname or companyURL are removed before the loop starts, and
\* verify_single_email is only ever called for a row without such a cell.
C18_OnlyUsableRows ==
    /\ bpc # "uploaded" =>
          /\ \A k \in DOMAIN cleaned_df : RowUsable(df[cleaned_df[k].index + 1])
          /\ Len(cleaned_df) = Cardinality({k \in DOMAIN df : RowUsable(df[k])})
    /\ pc # "idle" =>
          /\ bpc = "verifying"
          /\ LET row == df[cleaned_df[row_pos + 1].index + 1]
             IN  /\ RowUsable(row)
                 /\ firstname = Strip(row.firstname[1])
                 /\ lastname = Strip(row.lastname[1])
                 /\ company_url = Strip(row.companyURL[1])
          /\ firstname # << >> /\ lastname # << >> /\ company_url # << >>

\* of two uploaded rows the second has no firstname; the lookup of the first,
\* the only one left, is calling the oracle
C18_Witness ==
    /\ bpc = "verifying"
    /\ pc = "call"
    /\ Len(df) = 2
    /\ df[2].firstname = None
    /\ Len(cleaned_df) = 1

\* the outcome of a lookup as a function of the row's three values, the number
\* n of oracle calls made for the row and the answer to the last of them
RowOutcome(fn, ln, url, n, answer) ==
    LET dom == CleanDomain(url)
        name == ParseName(Strip(fn \o <<" ">> \o ln))
    IN  IF dom = << >> \/ ~Truthy(name.first) \/ ~Truthy(name.last) THEN None
        ELSE
          LET full == GenerateEmailFormats(name.first[1], name.middle,
                                           name.last[1], dom)
              accepted == /\ answer.kind = "json"
                          /\ ~Has(answer.body, "error")
                          /\ Get(answer.body, "status", "unknown")
                                \notin {"invalid", "disabled", "unknown"}
          IN  IF accepted
              THEN Some([firstname |-> fn, lastname |-> ln, company |-> dom,
                         email |-> Some(full[n]),
                         status |-> Get(answer.body, "status", "unknown"),
                         full_name |-> Strip(fn \o <<" ">> \o ln),
                         formats_tested |-> SubSeq(full, 1, n),
                         total_formats_available |-> Len(full),
                         found_on_attempt |-> Some(n),
                         api_result |-> answer.body])
              ELSE Some([firstname |-> fn, lastname |-> ln, company |-> dom,
                         email |-> None, status |-> "not_found",
                         full_name |-> Strip(fn \o <<" ">> \o ln),
                         formats_tested |-> full,
                         total_formats_available |-> Len(full),
                         found_on_attempt |-> None,
                         error |-> Some("No valid email found in any format")])

\* C20: per-row independence.  A row's lookup starts from fresh state and its
\* outcome is determined by the row's (firstname, lastname, companyURL) and the
\* oracle's answers to the row's candidates alone, whatever rows were
\* processed before it and whatever their outcomes were.
C20_RowIndependence ==
    bpc = "verifying" =>
        LET row == cleaned_df[row_pos + 1]
        IN  /\ pc = "start" =>
                  /\ formats_tested = << >> /\ calls = << >> /\ email_formats = << >>
                  /\ result = None /\ i = 0
            /\ formats_tested = SubSeq(email_formats, 1, Len(formats_tested))
            /\ pc = "done" =>
                  result = RowOutcome(Strip(row.firstname), Strip(row.lastname),
                                      Strip(row.companyURL), Len(calls), net)

\* the second row has its outcome after the first row's email was found
C20_Witness ==
    /\ bpc = "verifying"
    /\ pc = "done"
    /\ row_pos = 1
    /\ Len(verified_emails) = 1
    /\ result # None
    /\ result[1].email # None

\* two recorded calls of generate_email_formats had the same arguments
SameArguments(a, b) ==
    /\ a.first_name = b.first_name
    /\ a.middle_name = b.middle_name
    /\ a.last_name = b.last_name
    /\ a.domain = b.domain

\* C21: the generator is deterministic.  Two calls of generate_email_formats
\* with identical (first, middle, last, domain) return identical ordered
\* lists, whatever calls were made before and whatever the oracle answered
\* between them.
C21_Deterministic ==
    \A j, k \in DOMAIN generated :
        SameArguments(generated[j], generated[k]) =>
            generated[j].generated_emails = generated[k].generated_emails

\* the first row's lookup had its first address rejected and its second one
\* accepted by the oracle; the second row's lookup then called the generator
\* with the same arguments and got the same list, the accepted address in it
C21_Witness ==
    /\ Len(generated) = 2
    /\ SameArguments(generated[1], generated[2])
    /\ generated[2].generated_emails # << >>
    /\ generated[2].generated_emails = generated[1].generated_emails
    /\ Len(verified_emails) = 1
    /\ verified_emails[1].found_on_attempt = Some(2)
    /\ verified_emails[1].email = generated[2].generated_emails[2]

\* a row has been consumed and no lookup is running
RowProcessed == pc = "idle" /\ row_pos + (IF bpc = "type_error" THEN 1 ELSE 0) > 0

\* C24: calls-used accounting.  After each processed row the running
\* total_api_calls equals the number of oracle calls made so far:
\* found_on_attempt was added for a row whose email was accepted and
\* total_formats_available for a row that ended not_found.
C24_CallsAccounted ==
    (bpc \in {"loop", "type_error", "completed"} /\ RowProcessed) =>
        total_api_calls = oracle_calls

\* C27: batch progress stays in range.  For every row run_smart_verification
\* processes, the reported fraction (index + 1) / total_rows has
\* 0 < index + 1 <= total_rows, also when the cleaning removed rows.
C27_ProgressInRange ==
    /\ bpc # "progress_error"
    /\ (bpc \in {"loop", "verifying"} /\ row_pos < Len(cleaned_df)) =>
          /\ 0 < cleaned_df[row_pos + 1].index + 1
          /\ cleaned_df[row_pos + 1].index + 1 <= total_rows

----------------------------------------------------------------------------
(* The column mapping of render_optimized_csv_upload_tab: every action is    *)
(* one user event followed by the rerun of the script                        *)

MaxColumns == 3

\* column names of uploaded tables, in the order the tables hold them: First,
\* last and my_website
ColumnOrder ==
    << <<"F","i","r","s","t">>,
       <<"l","a","s","t">>,
       <<"m","y","_","w","e","b","s","i","t","e">> >>

ColumnNames == { ColumnOrder[k] : k \in DOMAIN ColumnOrder }

FileNames == {"a.csv", "b.csv"}

\* sample_size: int = 50
sample_size == 50

Min(a, b) == IF a <= b THEN a ELSE b

IsPresent(cell) == cell # None

\* df[column].dropna().astype(str).head(sample_size).tolist(), for a column
\* whose cells are strs or missing
SampleData(cells) ==
    LET present == SelectSeq(cells, IsPresent)
    IN  [k \in 1..Min(sample_size, Len(present)) |-> present[k][1]]

\* the characters str.isdigit() accepts
DigitChars == {"0","1","2","3","4","5","6","7","8","9","²","³","¹"}

\* str(x).replace('.', '').replace('-', '').isdigit()
IsNumeric(x) ==
    LET NotDotOrDash(c) == c \notin {".", "-"}
        rest == SelectSeq(x, NotDotOrDash)
    IN  rest # << >> /\ \A k \in DOMAIN rest : rest[k] \in DigitChars

\* str.startswith(prefix)
StartsWith(x, prefix) ==
    Len(x) >= Len(prefix) /\ SubSeq(x, 1, Len(prefix)) = prefix

\* str(x).lower().startswith(('http', 'www'))
HasHttp(x) ==
    \/ StartsWith(Lower(x), <<"h","t","t","p">>)
    \/ StartsWith(Lower(x), <<"w","w","w">>)

\* ['.com', '.org', '.net', '.io', '.co', '.gov', '.edu']
common_tlds ==
    { <<".","c","o","m">>, <<".","o","r","g">>, <<".","n","e","t">>,
      <<".","i","o">>, <<".","c","o">>, <<".","g","o","v">>,
      <<".","e","d","u">> }

\* any(tld in str(x).lower() for tld in [...])
HasCommonTld(x) == \E tld \in common_tlds : Contains(Lower(x), tld)

\* sum(len(str(x)) for x in sample_data)
RECURSIVE TotalLength(_)
TotalLength(sample_data) ==
    IF sample_data = << >> THEN 0
    ELSE Len(Head(sample_data)) + TotalLength(Tail(sample_data))

\* the counts of the analysis dict; avg_length is length_sum / total_samples,
\* computed in ColumnType
Analysis(sample_data) ==
    LET Count(Test(_)) ==
            Cardinality({k \in DOMAIN sample_data : Test(sample_data[k])})
        HasSpace(x) == Contains(x, <<" ">>)
        HasDot(x) == Contains(x, <<".">>)
        HasAt(x) == Contains(x, <<"@">>)
        SingleWord(x) == Len(Split(x)) = 1
        MultipleWords(x) == Len(Split(x)) > 1
    IN  [total_samples |-> Len(sample_data),
         length_sum |-> TotalLength(sample_data),
         has_spaces |-> Count(HasSpace),
         has_dots |-> Count(HasDot),
         has_at_symbol |-> Count(HasAt),
         has_http |-> Count(HasHttp),
         has_common_tlds |-> Count(HasCommonTld),
         numeric_count |-> Count(IsNumeric),
         single_words |-> Count(SingleWord),
         multiple_words |-> Count(MultipleWords)]

\* The percentages and the confidences of the code are IEEE 754 doubles, and
\* its integer scores are compared with them by value.  A double that is not
\* zero is [exp |-> e, bits |-> b]: b holds the binary digits of its
\* significand, the leading one first, and its value is the sum of
\* b[k] * 2^(e + 1 - k); zero is [exp |-> 0, bits |-> << >>].  The values of
\* the analysis are not negative and neither subnormal nor infinite.
Precision == 53

Zero == [exp |-> 0, bits |-> << >>]

Zeros(n) == [k \in 1..n |-> 0]

\* the binary digits of a natural number, the leading one first
RECURSIVE Bits(_)
Bits(n) == IF n = 0 THEN << >> ELSE Append(Bits(n \div 2), n % 2)

\* digits without their leading zeros
StripZeros(b) ==
    IF \A k \in DOMAIN b : b[k] = 0 THEN << >>
    ELSE LET first_one == CHOOSE k \in DOMAIN b :
                             b[k] = 1 /\ \A m \in 1..(k - 1) : b[m] = 0
         IN  SubSeq(b, first_one, Len(b))

\* the digits of b + 1, for digits b that are not all ones
Increment(b) ==
    LET last_zero == CHOOSE k \in DOMAIN b :
                        b[k] = 0 /\ \A m \in (k + 1)..Len(b) : b[m] = 1
    IN  [k \in DOMAIN b |->
            IF k < last_zero THEN b[k] ELSE IF k = last_zero THEN 1 ELSE 0]

\* Rounding to nearest, ties to even: the double of the number whose digits
\* are b, without leading zeros, with the last digit worth 2^lsb; sticky says
\* that the exact number is greater by less than 2^lsb, which happens only
\* with more than Precision digits.
Round(b, lsb, sticky) ==
    IF b = << >> THEN Zero
    ELSE IF Len(b) <= Precision
    THEN [exp |-> lsb + Len(b) - 1, bits |-> b \o Zeros(Precision - Len(b))]
    ELSE LET kept == SubSeq(b, 1, Precision)
             exponent == lsb + Len(b) - 1
             below == sticky \/ \E k \in (Precision + 2)..Len(b) : b[k] = 1
             up == b[Precision + 1] = 1 /\ (below \/ kept[Precision] = 1)
         IN  IF ~up THEN [exp |-> exponent, bits |-> kept]
             ELSE IF \A k \in DOMAIN kept : kept[k] = 1
             THEN [exp |-> exponent + 1, bits |-> <<1>> \o Zeros(Precision - 1)]
             ELSE [exp |-> exponent, bits |-> Increment(kept)]

\* long division by d > 0 of the digits b that follow digits which left the
\* remainder r < d: the quotient digits of b and the remainder after them.
\* The digits are taken half by half, the remainder of the first half being
\* computed before the second half is entered.
RECURSIVE LongDivide(_, _, _)
LongDivide(b, d, r) ==
    IF b = << >> THEN [quotient |-> << >>, remainder |-> r]
    ELSE IF Len(b) = 1
    THEN LET x == 2 * r + b[1]
         IN  IF x >= d THEN [quotient |-> <<1>>, remainder |-> x - d]
             ELSE [quotient |-> <<0>>, remainder |-> x]
    ELSE LET half == Len(b) \div 2
             left == LongDivide(SubSeq(b, 1, half), d, r)
         IN  CASE left.remainder < d ->
                 LET right == LongDivide(SubSeq(b, half + 1, Len(b)), d,
                                         left.remainder)
                 IN  [quotient |-> left.quotient \o right.quotient,
                      remainder |-> right.remainder]

\* the double of (digits b with the last digit worth 2^lsb) / d: the
\* quotient is taken to more than Precision + 1 digits
DivideBits(b, lsb, d) ==
    LET more == Precision + 2 + Len(Bits(d))
        division == LongDivide(b \o Zeros(more), d, 0)
    IN  Round(StripZeros(division.quotient), lsb - more, division.remainder # 0)

\* n / d of two ints
Divide(n, d) == DivideBits(Bits(n), 0, d)

\* x / d of a double and an int
DivideDouble(x, d) ==
    IF x = Zero THEN Zero ELSE DivideBits(x.bits, x.exp - (Precision - 1), d)

\* the digits b times c > 0, plus the carry < c of the digits after them: as
\* many digits as b holds and the carry into the digits before them.  The
\* digits are taken half by half, the last ones first, and their carry is
\* computed before the first half is entered.
RECURSIVE TimesBits(_, _, _)
TimesBits(b, c, carry) ==
    IF b = << >> THEN [digits |-> << >>, carry |-> carry]
    ELSE IF Len(b) = 1
    THEN LET x == b[1] * c + carry
         IN  [digits |-> <<x % 2>>, carry |-> x \div 2]
    ELSE LET half == Len(b) \div 2
             right == TimesBits(SubSeq(b, half + 1, Len(b)), c, carry)
         IN  CASE right.carry < c ->
                 LET left == TimesBits(SubSeq(b, 1, half), c, right.carry)
                 IN  [digits |-> left.digits \o right.digits,
                      carry |-> left.carry]

\* x * c of a double and an int
Times(x, c) ==
    IF x = Zero THEN Zero
    ELSE LET product == TimesBits(x.bits, c, 0)
         IN  Round(StripZeros(Bits(product.carry) \o product.digits),
                   x.exp - (Precision - 1), FALSE)

\* the sum of the digits a and b of one length, plus the carry of the digits
\* after them: as many digits and the carry into the digits before them
RECURSIVE PlusBits(_, _, _)
PlusBits(a, b, carry) ==
    IF a = << >> THEN [digits |-> << >>, carry |-> carry]
    ELSE IF Len(a) = 1
    THEN LET x == a[1] + b[1] + carry
         IN  [digits |-> <<x % 2>>, carry |-> x \div 2]
    ELSE LET half == Len(a) \div 2
             right == PlusBits(SubSeq(a, half + 1, Len(a)),
                               SubSeq(b, half + 1, Len(b)), carry)
         IN  CASE right.carry \in {0, 1} ->
                 LET left == PlusBits(SubSeq(a, 1, half), SubSeq(b, 1, half),
                                      right.carry)
                 IN  [digits |-> left.digits \o right.digits,
                      carry |-> left.carry]

\* x + y of two doubles
Plus(x, y) ==
    IF x = Zero THEN y
    ELSE IF y = Zero THEN x
    ELSE LET lsb == Min(x.exp, y.exp) - (Precision - 1)
             a == x.bits \o Zeros(x.exp - (Precision - 1) - lsb)
             b == y.bits \o Zeros(y.exp - (Precision - 1) - lsb)
             n == IF Len(a) >= Len(b) THEN Len(a) ELSE Len(b)
             sum == PlusBits(Zeros(n - Len(a)) \o a, Zeros(n - Len(b)) \o b, 0)
         IN  Round(StripZeros(Bits(sum.carry) \o sum.digits), lsb, FALSE)

\* the value of an int score
Whole(n) == Round(Bits(n), 0, FALSE)

\* x < y
LessThan(x, y) ==
    IF y = Zero THEN FALSE
    ELSE IF x = Zero THEN TRUE
    ELSE \/ x.exp < y.exp
         \/ /\ x.exp = y.exp
            /\ \E k \in 1..Precision :
                  /\ x.bits[k] < y.bits[k]
                  /\ \A j \in 1..(k - 1) : x.bits[j] = y.bits[j]

\* max(a, b) of Python: the first argument unless the second is greater
MaxScore(a, b) == IF LessThan(a, b) THEN b ELSE a

\* min(a, b) of Python: the first argument unless the second is smaller
MinScore(a, b) == IF LessThan(b, a) THEN b ELSE a

\* percentages[k] = v / total * 100 for a count v
Percentage(v, total) == Times(Divide(v, total), 100)

\* The type and the confidence analyze_column_content derives from the
\* analysis of a sample that is not empty.  avg_length is a double, and
\* percentages["avg_length"] is avg_length / total * 100.
ColumnType(a) ==
    LET total == a.total_samples
        Percent(count) == Percentage(count, total)
        avg_length == Divide(a.length_sum, total)
        Above(x, t) == LessThan(Whole(t), x)
        Below(x, t) == LessThan(x, Whole(t))
    IN  IF \/ Above(Percent(a.has_common_tlds), 60)
           \/ Above(Percent(a.has_http), 30)
           \/ Above(Percent(a.has_dots), 70)
        THEN [type |-> "url",
              confidence |->
                  MinScore(Whole(90),
                           Plus(Percent(a.has_common_tlds), Percent(a.has_http)))]
        ELSE IF Above(Percent(a.has_at_symbol), 70)
        THEN [type |-> "email",
              confidence |-> MinScore(Whole(95), Percent(a.has_at_symbol))]
        ELSE IF /\ Above(Percent(a.single_words), 70)
                /\ Below(Times(DivideDouble(avg_length, total), 100), 15)
                /\ Below(Percent(a.has_spaces), 20)
        THEN [type |-> "name", confidence |-> Whole(70)]
        ELSE IF /\ Above(Percent(a.multiple_words), 50)
                /\ Above(Percent(a.has_spaces), 40)
                /\ Above(Times(DivideDouble(avg_length, total), 100), 8)
        THEN [type |-> "full_name", confidence |-> Whole(75)]
        ELSE IF \/ Above(Percent(a.numeric_count), 60)
                \/ Above(avg_length, 10)
        THEN [type |-> "phone", confidence |-> Whole(60)]
        ELSE [type |-> "unknown", confidence |-> Whole(0)]

\* the type and the confidence for a sample: unknown with confidence 0 for
\* an empty one
SampleType(sample_data) ==
    IF sample_data = << >>
    THEN [type |-> "unknown", confidence |-> Whole(0)]
    ELSE ColumnType(Analysis(sample_data))

\* analyze_column_content(df, column): type and confidence for the cells of a
\* column of df
AnalyzeColumnContent(cells) == SampleType(SampleData(cells))

Repeat(x, n) == [k \in 1..n |-> x]

\* rows of uploaded tables
TableRows == 8

\* cells followed by missing cells up to the number of rows of the table
Column(cells) == cells \o Repeat(None, TableRows - Len(cells))

\* the cells of the columns of uploaded tables: four times John (no type),
\* eight times J (single short names), x.co three times and John (a url
\* column with confidence 75), x.co once (a url column with confidence 90),
\* twice J S (full names); the other cells are missing
CellSamples ==
    { Column(Repeat(Some(<<"J","o","h","n">>), 4)),
      Column(Repeat(Some(<<"J">>), 8)),
      Column(Repeat(Some(<<"x",".","c","o">>), 3)
                \o <<Some(<<"J","o","h","n">>)>>),
      Column(<<Some(<<"x",".","c","o">>)>>),
      Column(Repeat(Some(<<"J"," ","S">>), 2)) }

\* what analyze_column_content returns for these cells
ContentAnalyses == { AnalyzeColumnContent(cells) : cells \in CellSamples }

\* The regular expressions of the detection, in the order of the lists.  An
\* anchored pattern ^(a|b)$ holds its alternatives in heads; a pattern a|b
\* that may be found anywhere holds them in heads too, and the pattern
\* (a|b).*(c|d) holds a, b in heads and c, d in tails.
\* firstname_patterns
firstname_patterns ==
    <<
      [anchored |-> TRUE,
       heads |-> { <<"f","i","r","s","t">>, <<"f","n","a","m","e">>,
                   <<"f","i","r","s","t","n","a","m","e">>,
                   <<"f","i","r","s","t","_","n","a","m","e">>,
                   <<"g","i","v","e","n">>,
                   <<"g","i","v","e","n","_","n","a","m","e">>,
                   <<"f","o","r","e","n","a","m","e">> },
       tails |-> { << >> }],
      [anchored |-> TRUE,
       heads |-> { <<"f","n","a","m","e">>, <<"f","_","n","a","m","e">> },
       tails |-> { << >> }],
      [anchored |-> TRUE,
       heads |-> { <<"p","r","e","n","o","m">>, <<"n","o","m","e">>,
                   <<"v","o","r","n","a","m","e">> },
       tails |-> { << >> }],
      [anchored |-> FALSE,
       heads |-> { <<"f","i","r","s","t">> },
       tails |-> { << >> }]
    >>

\* lastname_patterns
lastname_patterns ==
    <<
      [anchored |-> TRUE,
       heads |-> { <<"l","a","s","t">>, <<"l","n","a","m","e">>,
                   <<"l","a","s","t","n","a","m","e">>,
                   <<"l","a","s","t","_","n","a","m","e">>,
                   <<"s","u","r","n","a","m","e">>,
                   <<"f","a","m","i","l","y">>,
                   <<"f","a","m","i","l","y","_","n","a","m","e">> },
       tails |-> { << >> }],
      [anchored |-> TRUE,
       heads |-> { <<"l","n","a","m","e">>, <<"l","_","n","a","m","e">> },
       tails |-> { << >> }],
      [anchored |-> TRUE,
       heads |-> { <<"n","o","m">>, <<"a","p","e","l","l","i","d","o">>,
                   <<"n","a","c","h","n","a","m","e">> },
       tails |-> { << >> }],
      [anchored |-> FALSE,
       heads |-> { <<"l","a","s","t">>, <<"s","u","r","n","a","m","e">> },
       tails |-> { << >> }]
    >>

\* url_patterns
url_patterns ==
    <<
      [anchored |-> TRUE,
       heads |-> { <<"u","r","l">>, <<"w","e","b","s","i","t","e">>,
                   <<"s","i","t","e">>, <<"d","o","m","a","i","n">>,
                   <<"c","o","m","p","a","n","y","u","r","l">>,
                   <<"c","o","m","p","a","n","y","_","u","r","l">>,
                   <<"c","o","m","p","a","n","y","w","e","b","s","i","t","e">>,
                   <<"c","o","m","p","a","n","y","_","w","e","b","s","i","t","e">> },
       tails |-> { << >> }],
      [anchored |-> TRUE,
       heads |-> { <<"w","e","b">>, <<"l","i","n","k">>,
                   <<"h","o","m","e","p","a","g","e">>, <<"w","w","w">> },
       tails |-> { << >> }],
      [anchored |-> FALSE,
       heads |-> { <<"c","o","m","p","a","n","y">>, <<"c","o","r","p">>,
                   <<"b","u","s","i","n","e","s","s">> },
       tails |-> { <<"u","r","l">>, <<"s","i","t","e">>, <<"w","e","b">> }],
      [anchored |-> FALSE,
       heads |-> { <<"w","e","b","s","i","t","e">>,
                   <<"d","o","m","a","i","n">>, <<"u","r","l">> },
       tails |-> { << >> }]
    >>

\* the pattern p, taken without anchors, matches the text from position at on:
\* one of the heads, then any characters but a line feed, then one of the tails
FoundAt(text, p, at) ==
    \E head \in p.heads :
        /\ at + Len(head) - 1 <= Len(text)
        /\ SubSeq(text, at, at + Len(head) - 1) = head
        /\ \E tail \in p.tails :
              \E from \in (at + Len(head))..(Len(text) + 1 - Len(tail)) :
                  /\ SubSeq(text, from, from + Len(tail) - 1) = tail
                  /\ \A k \in (at + Len(head))..(from - 1) : text[k] # "\n"

\* re.search(pattern, column_lower, re.IGNORECASE)
Search(p, text) ==
    IF p.anchored THEN text \in p.heads
    ELSE \E at \in 1..(Len(text) + 1) : FoundAt(text, p, at)

\* re.match(pattern.replace('$', '').replace('^', ''), column_lower)
MatchWithoutAnchors(p, text) == FoundAt(text, p, 1)

\* the score of the first pattern of the list that is found: 90 when it also
\* matches at the start of the name, 70 otherwise; 0 when none is found
PatternScore(patterns, text) ==
    IF \A k \in DOMAIN patterns : ~Search(patterns[k], text) THEN 0
    ELSE LET found == CHOOSE k \in DOMAIN patterns :
                         /\ Search(patterns[k], text)
                         /\ \A j \in 1..(k - 1) : ~Search(patterns[j], text)
         IN  IF MatchWithoutAnchors(patterns[found], text) THEN 90 ELSE 70

\* the firstname, lastname and url scores the patterns give a column name
PatternScores(name) ==
    LET column_lower == Strip(Lower(name))
    IN  [firstname |-> PatternScore(firstname_patterns, column_lower),
         lastname |-> PatternScore(lastname_patterns, column_lower),
         company_url |-> PatternScore(url_patterns, column_lower)]

\* the pattern scores p of a column, raised to the confidence of the content
\* analysis c for firstname and lastname when the cells look like single
\* names, for company_url when they look like urls
RaisedScores(p, c) ==
    [firstname |-> IF c.type = "name"
                   THEN MaxScore(Whole(p.firstname), c.confidence)
                   ELSE Whole(p.firstname),
     lastname |-> IF c.type = "name"
                  THEN MaxScore(Whole(p.lastname), c.confidence)
                  ELSE Whole(p.lastname),
     company_url |-> IF c.type = "url"
                     THEN MaxScore(Whole(p.company_url), c.confidence)
                     ELSE Whole(p.company_url)]

\* the scores the detection loop gives a column
ColumnScores(column) ==
    RaisedScores(PatternScores(column.name), AnalyzeColumnContent(column.cells))

\* the columns uploaded tables are made of
Columns == [name : ColumnNames, cells : CellSamples]

\* the scores of the detection loop for each of these columns, as pairs
\* <<column, scores>>
ColumnScoreTable == { <<column, ColumnScores(column)>> : column \in Columns }

ScoreOf(column, field_type) ==
    (CHOOSE p \in ColumnScoreTable : p[1] = column)[2][field_type]

\* candidates.sort(key=score, reverse=True)[0] for the scores of the columns:
\* the column with the highest score above 0, the earliest one among equals;
\* None without a candidate
BestScored(columns, scores) ==
    LET scored == {k \in DOMAIN columns : LessThan(Whole(0), scores[k])}
    IN  IF scored = {} THEN None
        ELSE LET best == CHOOSE k \in scored :
                            \A j \in scored :
                               \/ LessThan(scores[j], scores[k])
                               \/ scores[j] = scores[k] /\ k <= j
             IN  Some(columns[best].name)

BestCandidate(columns, field_type) ==
    BestScored(columns,
               [k \in DOMAIN columns |-> ScoreOf(columns[k], field_type)])

\* the recommended columns of smart_column_detection(df)
SmartColumnDetection(columns) ==
    [firstname |-> BestCandidate(columns, "firstname"),
     lastname |-> BestCandidate(columns, "lastname"),
     company_url |-> BestCandidate(columns, "company_url")]

PositionOf(name) == CHOOSE k \in DOMAIN ColumnOrder : ColumnOrder[k] = name

\* the column names of uploaded tables: at most MaxColumns distinct names,
\* in the order of ColumnOrder
NameLists ==
    { names \in UNION { [1..n -> ColumnNames] : n \in 1..MaxColumns } :
         \A j, k \in DOMAIN names :
            j < k => PositionOf(names[j]) < PositionOf(names[k]) }

\* the columns of uploaded tables, each with its cells
ColumnLists ==
    UNION { { [k \in DOMAIN names |-> [name |-> names[k], cells |-> cells[k]]] :
                 cells \in [DOMAIN names -> CellSamples] } :
            names \in NameLists }

HasColumn(columns, column) == \E k \in DOMAIN columns : columns[k].name = column

\* "Reset mapping when new file is uploaded"
ResetOnNewFile(ss, file) ==
    IF ss.last_file_name # Some(file.name)
    THEN [column_mapping |-> None, mapping_confirmed |-> FALSE,
          show_manual_selection |-> FALSE, last_file_name |-> Some(file.name)]
    ELSE ss

\* building cleaned_df from the mapped columns: a column that is not in the
\* table raises KeyError, whose handler unconfirms the mapping
ProcessMapping(ss, file) ==
    IF /\ ss.mapping_confirmed
       /\ ss.column_mapping # None
       /\ \/ ~HasColumn(file.columns, ss.column_mapping[1].firstname)
          \/ ~HasColumn(file.columns, ss.column_mapping[1].lastname)
          \/ ~HasColumn(file.columns, ss.column_mapping[1].companyURL)
    THEN [ss EXCEPT !.mapping_confirmed = FALSE]
    ELSE ss

\* one run of the script on the uploaded file; when reading the file raises,
\* the handler of the outer try reports it and the session state stays
RunScript(ss, file) ==
    IF file.readable THEN ProcessMapping(ResetOnNewFile(ss, file), file) ELSE ss

\* the file in the uploader was read and its dialogs are rendered
FileShown == uploaded_file # None /\ uploaded_file[1].readable

\* the session state the Accept Recommendations handler leaves
AcceptedMapping(ss, rec) ==
    [ss EXCEPT !.column_mapping =
                   Some([firstname |-> rec.firstname[1],
                         lastname |-> rec.lastname[1],
                         companyURL |-> rec.company_url[1],
                         method |-> "automatic"]),
               !.mapping_confirmed = TRUE]

MapInit ==
    /\ UiIdle
    /\ LookupIdle
    /\ generated = << >>
    /\ FnIdle
    /\ LiIdle
    /\ bpc = "idle"
    /\ df = << >>
    /\ cleaned_df = << >>
    /\ row_pos = 0
    /\ total_rows = 0
    /\ total_api_calls = 0
    /\ verified_emails = << >>
    /\ rows_started = 0
    /\ oracle_calls = 0

\* the files the uploader can hold: tables, and files pd.read_csv or
\* pd.read_excel raises on
UploadableFiles ==
    { [name |-> name, columns |-> columns, readable |-> TRUE] :
         name \in FileNames, columns \in ColumnLists }
    \cup { [name |-> name, columns |-> << >>, readable |-> FALSE] : name \in FileNames }

\* a file is put into the uploader
UploadFile ==
    \E file \in UploadableFiles :
        LET name == file.name
        IN  /\ uploaded_file # Some(file)
            /\ uploaded_file' = Some(file)
            /\ session_state' = RunScript(session_state, file)
            /\ ui_event' = IF session_state.last_file_name # Some(name)
                           THEN "upload_new_name" ELSE "upload_same_name"
            /\ UNCHANGED <<lookup_vars, batch_vars, fn_vars, li_vars, gen_vars>>

\* the Accept Recommendations button, enabled when three columns are recommended
AcceptRecommendations ==
    /\ FileShown
    /\ ~session_state.mapping_confirmed
    /\ ~session_state.show_manual_selection
    /\ LET rec == SmartColumnDetection(uploaded_file[1].columns)
       IN  /\ rec.firstname # None /\ rec.lastname # None /\ rec.company_url # None
           /\ session_state' =
                  RunScript(AcceptedMapping(session_state, rec), uploaded_file[1])
    /\ ui_event' = "accept"
    /\ UNCHANGED uploaded_file
    /\ UNCHANGED <<lookup_vars, batch_vars, fn_vars, li_vars, gen_vars>>

\* the Manual Selection button
ManualSelection ==
    /\ FileShown
    /\ ~session_state.mapping_confirmed
    /\ ~session_state.show_manual_selection
    /\ session_state' =
           RunScript([session_state EXCEPT !.show_manual_selection = TRUE],
                     uploaded_file[1])
    /\ ui_event' = "manual"
    /\ UNCHANGED uploaded_file
    /\ UNCHANGED <<lookup_vars, batch_vars, fn_vars, li_vars, gen_vars>>

\* Confirm Manual Selection, shown when three different columns are selected
ConfirmManualSelection ==
    /\ FileShown
    /\ ~session_state.mapping_confirmed
    /\ session_state.show_manual_selection
    /\ \E firstname_col, lastname_col, url_col \in ColumnNames :
          /\ HasColumn(uploaded_file[1].columns, firstname_col)
          /\ HasColumn(uploaded_file[1].columns, lastname_col)
          /\ HasColumn(uploaded_file[1].columns, url_col)
          /\ Cardinality({firstname_col, lastname_col, url_col}) = 3
          /\ session_state' =
                RunScript([session_state EXCEPT
                               !.column_mapping =
                                   Some([firstname |-> firstname_col,
                                         lastname |-> lastname_col,
                                         companyURL |-> url_col,
                                         method |-> "manual"]),
                               !.mapping_confirmed = TRUE,
                               !.show_manual_selection = FALSE],
                          uploaded_file[1])
    /\ ui_event' = "confirm_manual"
    /\ UNCHANGED uploaded_file
    /\ UNCHANGED <<lookup_vars, batch_vars, fn_vars, li_vars, gen_vars>>

\* the Back to Recommendations button
BackToRecommendations ==
    /\ FileShown
    /\ ~session_state.mapping_confirmed
    /\ session_state.show_manual_selection
    /\ session_state' =
           RunScript([session_state EXCEPT !.show_manual_selection = FALSE],
                     uploaded_file[1])
    /\ ui_event' = "back"
    /\ UNCHANGED uploaded_file
    /\ UNCHANGED <<lookup_vars, batch_vars, fn_vars, li_vars, gen_vars>>

\* the Change Column Mapping button
ChangeColumnMapping ==
    /\ FileShown
    /\ session_state.mapping_confirmed
    /\ session_state.column_mapping # None
    /\ session_state' =
           RunScript([session_state EXCEPT !.mapping_confirmed = FALSE,
                                           !.column_mapping = None],
                     uploaded_file[1])
    /\ ui_event' = "change"
    /\ UNCHANGED uploaded_file
    /\ UNCHANGED <<lookup_vars, batch_vars, fn_vars, li_vars, gen_vars>>

\* the file is taken out of the uploader: nothing below the uploader runs
RemoveFile ==
    /\ uploaded_file # None
    /\ uploaded_file' = None
    /\ ui_event' = "remove"
    /\ UNCHANGED session_state
    /\ UNCHANGED <<lookup_vars, batch_vars, fn_vars, li_vars, gen_vars>>

MapNext ==
    \/ UploadFile
    \/ RemoveFile
    \/ AcceptRecommendations
    \/ ManualSelection
    \/ ConfirmManualSelection
    \/ BackToRecommendations
    \/ ChangeColumnMapping

MapSpec == MapInit /\ [][MapNext]_vars

\* C29: a confirmed column mapping is well-formed.  Whenever mapping_confirmed
\* is true, column_mapping is set and maps firstname, lastname and companyURL
\* to three pairwise distinct columns of the uploaded table, whether confirmed
\* by Accept Recommendations or by manual selection; uploading a file with a
\* different name resets mapping_confirmed to false and column_mapping to None.
C29_ConfirmedMappingWellFormed ==
    /\ session_state.mapping_confirmed =>
          /\ session_state.column_mapping # None
          /\ uploaded_file # None
          /\ LET m == session_state.column_mapping[1]
             IN  /\ m.method \in {"automatic", "manual"}
                 /\ HasColumn(uploaded_file[1].columns, m.firstname)
                 /\ HasColumn(uploaded_file[1].columns, m.lastname)
                 /\ HasColumn(uploaded_file[1].columns, m.companyURL)
                 /\ Cardinality({m.firstname, m.lastname, m.companyURL}) = 3
    /\ ui_event = "upload_new_name" =>
          /\ ~session_state.mapping_confirmed
          /\ session_state.column_mapping = None

----------------------------------------------------------------------------
(* find_linkedin_enhanced: the fallback chain of the five search methods *)

\* the five search functions in the order find_linkedin_enhanced calls them
SearchMethods ==
    << "simple_linkedin_search", "googlesearch_library_method",
       "selenium_browser_method", "fallback_duckduckgo_search",
       "simple_google_linkedin_search" >>

\* the search_engine the found result of the k-th method can carry when
\* find_linkedin_enhanced returns it: the Selenium method sets one of two
\* names, for a profile link among the anchors or in the page source
SearchEngines(k) ==
    IF k = 1 THEN {"Direct URL Test"}
    ELSE IF k = 2 THEN {"googlesearch-python"}
    ELSE IF k = 3 THEN {"Selenium Chrome", "Selenium Chrome (Regex)"}
    ELSE IF k = 4 THEN {"DuckDuckGo Enhanced"}
    ELSE {"Custom Google"}

\* the statuses a search method's result can carry when it returns
MethodStatuses == {"found", "not_found", "error", "blocked"}

LinkedInEmails ==
    { <<"a","@","x",".","c","o">>, <<"j","s","m","i","t","h","@","x",".","c","o">> }

search_engines_tried ==
    << "Direct URL Test", "googlesearch-python", "Selenium Enhanced",
       "DuckDuckGo Enhanced", "Custom Google" >>

\* a chain that goes on to the next method whatever the status
ReturnsResult_never(status) == FALSE

\* if result['status'] == 'found': return result
ReturnsResult(status) == status = "found"

\* the call of the k-th search method, which comes back with the given status
InvokeMethod(k, status) ==
    /\ li_pc = k
    /\ li_tried' = Append(li_tried, [method |-> SearchMethods[k], status |-> status])
    /\ IF ReturnsResult(status)
       THEN /\ li_pc' = 7
            /\ \E search_engine \in SearchEngines(k) :
                  li_result' = Some([email |-> li_email, status |-> status,
                                     method |-> SearchMethods[k],
                                     search_engine |-> search_engine])
       ELSE /\ li_pc' = k + 1
            /\ UNCHANGED li_result
    /\ UNCHANGED li_email
    /\ UNCHANGED <<lookup_vars, batch_vars, fn_vars, ui_vars, gen_vars>>

SimpleLinkedinSearch == \E status \in MethodStatuses : InvokeMethod(1, status)

GooglesearchLibraryMethod == \E status \in MethodStatuses : InvokeMethod(2, status)

SeleniumBrowserMethod == \E status \in MethodStatuses : InvokeMethod(3, status)

FallbackDuckduckgoSearch == \E status \in MethodStatuses : InvokeMethod(4, status)

SimpleGoogleLinkedinSearch == \E status \in MethodStatuses : InvokeMethod(5, status)

\* "All methods failed": the combined result
AllMethodsFailed ==
    /\ li_pc = 6
    /\ li_pc' = 7
    /\ li_result' = Some([email |-> li_email, status |-> "not_found",
                          method |-> "combined",
                          search_engines_tried |-> search_engines_tried])
    /\ UNCHANGED <<li_email, li_tried>>
    /\ UNCHANGED <<lookup_vars, batch_vars, fn_vars, ui_vars, gen_vars>>

LinkedInInit ==
    /\ li_pc = 1
    /\ li_email \in LinkedInEmails
    /\ li_tried = << >>
    /\ li_result = None
    /\ UiIdle
    /\ LookupIdle
    /\ generated = << >>
    /\ FnIdle
    /\ bpc = "idle"
    /\ df = << >>
    /\ cleaned_df = << >>
    /\ row_pos = 0
    /\ total_rows = 0
    /\ total_api_calls = 0
    /\ verified_emails = << >>
    /\ rows_started = 0
    /\ oracle_calls = 0

LinkedInNext ==
    \/ SimpleLinkedinSearch
    \/ GooglesearchLibraryMethod
    \/ SeleniumBrowserMethod
    \/ FallbackDuckduckgoSearch
    \/ SimpleGoogleLinkedinSearch
    \/ AllMethodsFailed

LinkedInSpec == LinkedInInit /\ [][LinkedInNext]_vars

LinkedInReturned == li_pc = 7

\* C30: LinkedIn fallback chain.  The five methods are invoked in the fixed
\* order direct URL test, googlesearch library, Selenium, DuckDuckGo, custom
\* Google; the result of the first method whose status is 'found' is returned
\* and no later method is invoked; only when all five were invoked and none
\* reported 'found' the status not_found is returned with all five listed in
\* search_engines_tried.
C30_FallbackChain ==
    /\ Len(li_tried) <= 5
    /\ \A k \in DOMAIN li_tried :
          /\ li_tried[k].method = SearchMethods[k]
          /\ li_tried[k].status = "found" => (k = Len(li_tried) /\ LinkedInReturned)
    /\ LinkedInReturned =>
          /\ li_result # None
          /\ li_tried # << >>
          /\ IF li_tried[Len(li_tried)].status = "found"
             THEN /\ li_result[1].status = "found"
                  /\ li_result[1].method =
                        << "simple_linkedin_search", "googlesearch_library_method",
                           "selenium_browser_method", "fallback_duckduckgo_search",
                           "simple_google_linkedin_search" >>[Len(li_tried)]
             ELSE /\ Len(li_tried) = 5
                  /\ li_result[1].status = "not_found"
                  /\ li_result[1].search_engines_tried =
                        << "Direct URL Test", "googlesearch-python",
                           "Selenium Enhanced", "DuckDuckGo Enhanced",
                           "Custom Google" >>
    /\ ~LinkedInReturned => li_result = None

\* Selenium, the third method, found the profile after two failures
C30_Witness ==
    /\ LinkedInReturned
    /\ Len(li_tried) = 3
    /\ li_tried[1].status = "not_found"
    /\ li_tried[2].status = "error"
    /\ li_tried[3] = [method |-> "selenium_browser_method", status |-> "found"]
    /\ li_result[1].status = "found"

====
